---- MODULE Spec2Model ----
(***************************************************************************)
(* DevPulse insight engine (window.DevPulseAI, src/js/ai-insights.js) and  *)
(* the dashboard that calls it (window.DevPulse, src/js/app.js).           *)
(*                                                                         *)
(* Conventions of the model                                                *)
(*  - JavaScript numbers that are not integers are kept in thousandths     *)
(*    (a score of 7.5 is 7500, a confidence of 0.85 is 850); a quotient is *)
(*    truncated to the thousandth.  Where the code compares a ratio with a *)
(*    literal (x / n > 0.4) the comparison is made exactly, by cross       *)
(*    multiplication.                                                      *)
(*  - Math.random() is a draw r in 0..999 (thousandths of [0,1)).          *)
(*  - An optional value is a sequence of length at most one: <<>> is       *)
(*    undefined/null, <<v>> is the value v.                                *)
(*  - Timestamps are local wall-clock values [day, hour, minute]; day 0 is *)
(*    a Sunday, so getDay() is day % 7.                                    *)
(*  - Repository names and descriptions are sequences of one-character     *)
(*    strings, so that toLowerCase() and includes() are computed.          *)
(*  - A label is written without the emoji that closes it in the source.   *)
(***************************************************************************)
EXTENDS Integers, Sequences, FiniteSets, Bags, TLC

VARIABLES userData, clock, insights, earlier, probe,
          devPulse,   \* the state fields of window.DevPulse
          calls,      \* the bag of invocations of the dashboard's async functions and timers
          page        \* what the calls have done to the document

\* The variables of the insight engine and those of the dashboard
engine == <<userData, clock, insights, earlier, probe>>

dashboard == <<devPulse, calls, page>>

vars == <<userData, clock, insights, earlier, probe, devPulse, calls, page>>

-----------------------------------------------------------------------------
(* Generic helpers *)

Min(a, b) == IF a <= b THEN a ELSE b

Max(a, b) == IF a >= b THEN a ELSE b

Absent == <<>>

Present(v) == <<v>>

IsPresent(o) == Len(o) > 0

Get(o) == o[1]

\* `x || []` for an optional array
OrEmpty(o) == IF IsPresent(o) THEN Get(o) ELSE <<>>

\* `x || 0` for an optional number
OrZero(o) == IF IsPresent(o) THEN Get(o) ELSE 0

\* Array.prototype.filter, keeping order
Filter(s, Keep(_)) == SelectSeq(s, Keep)

\* filter(...).length
Count(s, Keep(_)) == Cardinality({i \in 1..Len(s) : Keep(s[i])})

\* reduce((a, b) => a + b, 0) over an array of integers
RECURSIVE Sum(_)
Sum(s) == IF s = <<>> THEN 0 ELSE Head(s) + Sum(Tail(s))

\* Array.prototype.slice(from, to) with 0-based, end-exclusive indices
Slice(s, from, to) == SubSeq(s, Min(from, Len(s)) + 1, Min(to, Len(s)))

\* [...new Set(s)]: first occurrences, in order
Dedup(s) ==
  LET firsts == {i \in 1..Len(s) : \A j \in 1..(i - 1) : s[j] /= s[i]}
      rank(i) == Cardinality({j \in firsts : j <= i})
  IN [k \in 1..Cardinality(firsts) |-> s[CHOOSE i \in firsts : rank(i) = k]]

\* Array.prototype.includes
Has(s, x) == \E i \in 1..Len(s) : s[i] = x

-----------------------------------------------------------------------------
(* Strings of the repository records *)

LowerChar(c) ==
  CASE c = "A" -> "a" [] c = "B" -> "b" [] c = "C" -> "c" [] c = "D" -> "d"
    [] c = "E" -> "e" [] c = "F" -> "f" [] c = "G" -> "g" [] c = "H" -> "h"
    [] c = "I" -> "i" [] c = "J" -> "j" [] c = "K" -> "k" [] c = "L" -> "l"
    [] c = "M" -> "m" [] c = "N" -> "n" [] c = "O" -> "o" [] c = "P" -> "p"
    [] c = "Q" -> "q" [] c = "R" -> "r" [] c = "S" -> "s" [] c = "T" -> "t"
    [] c = "U" -> "u" [] c = "V" -> "v" [] c = "W" -> "w" [] c = "X" -> "x"
    [] c = "Y" -> "y" [] c = "Z" -> "z" [] OTHER -> c

\* String.prototype.toLowerCase
ToLowerCase(s) == [i \in 1..Len(s) |-> LowerChar(s[i])]

\* String.prototype.includes
Includes(s, k) ==
  \E i \in 0..(Len(s) - Len(k)) : SubSeq(s, i + 1, i + Len(k)) = k

\* `(x || '').toLowerCase()` and `x?.toLowerCase() || ''`
LowerOrEmpty(o) == IF IsPresent(o) THEN ToLowerCase(Get(o)) ELSE <<>>

\* Null language (filter(Boolean) drops it)
NoLanguage == "null"

-----------------------------------------------------------------------------
(* Time *)

\* Date.getTime() in minutes
Minutes(ts) == (ts.day * 24 + ts.hour) * 60 + ts.minute

\* Date.getDay(): 0 = Sunday .. 6 = Saturday
GetDay(ts) == ts.day % 7

\* Date.getHours()
GetHours(ts) == ts.hour

\* Date.toDateString(): one string per calendar day
ToDateString(ts) == ts.day

-----------------------------------------------------------------------------
(* Score calculators.  r is the Math.random() draw of the placeholder      *)
(* branch, now the value of Date.now().                                    *)

\* Math.min(10, Math.max(1, score))
Clamp(score) == Min(10000, Max(1000, score))

\* repos.map(r => r.language).filter(Boolean)
Languages(repos) ==
  LET all == [i \in 1..Len(repos) |-> repos[i].language]
  IN SelectSeq(all, LAMBDA l : l /= NoLanguage)

\* new Set(list).size
UniqueCount(list) == Cardinality({list[i] : i \in 1..Len(list)})

innovativeKeywords ==
  <<<<"e", "x", "p", "e", "r", "i", "m", "e", "n", "t">>, <<"p", "r", "o", "t", "o", "t", "y", "p", "e">>, <<"p", "o", "c">>, <<"d", "e", "m", "o">>,
    <<"i", "n", "n", "o", "v", "a", "t", "i", "v", "e">>, <<"c", "u", "t", "t", "i", "n", "g", "-", "e", "d", "g", "e">>, <<"a", "i">>, <<"m", "l">>, <<"b", "l", "o", "c", "k", "c", "h", "a", "i", "n">>>>

\* keywords.some(keyword => text.includes(keyword))
SomeIncluded(text, keywords) ==
  \E i \in 1..Len(keywords) : Includes(text, keywords[i])

\* new Date(r.created_at || r.updated_at) is at most 6 months (of 30 days) old
IsRecentRepo(repo, now) ==
  LET created == IF IsPresent(repo.created_at) THEN repo.created_at ELSE repo.updated_at
  IN IsPresent(created) /\ Minutes(now) - Minutes(Get(created)) <= 6 * 30 * 24 * 60

\* The sum of the four capped sub-terms, for at least one repository
innovationPoints(repos, now) ==
    LET uniqueLanguages == UniqueCount(Languages(repos))
        originalRepos == Count(repos, LAMBDA x : ~x.fork)
        totalRepos == Len(repos)
        experimentalRepos ==
          Count(repos, LAMBDA x : SomeIncluded(LowerOrEmpty(x.description), innovativeKeywords))
        recentRepos == Count(repos, LAMBDA x : IsRecentRepo(x, now))
        score == Min(4000, uniqueLanguages * 800)
                 + Min(3000, (originalRepos * 4000) \div Max(totalRepos, 1))
                 + Min(2000, experimentalRepos * 500)
                 + Min(1000, (recentRepos * 2000) \div Max(totalRepos, 1))
    IN score

\* calculateInnovationScore without the lower clamp Math.max(1, score)
calculateInnovationScore_noFloor(repos, now, r) ==
  IF Len(repos) = 0 THEN r * 3 + 4000 ELSE Min(10000, innovationPoints(repos, now))

\* calculateInnovationScore with the placeholder also returned for a single repository
calculateInnovationScore_belowTwo(repos, now, r) ==
  IF Len(repos) < 2 THEN r * 3 + 4000 ELSE Clamp(innovationPoints(repos, now))

calculateInnovationScore(repos, now, r) ==
  IF Len(repos) = 0 THEN r * 3 + 4000 ELSE Clamp(innovationPoints(repos, now))

IsCollaborative(e) ==
  e.type \in {"PullRequestEvent", "IssuesEvent", "PullRequestReviewEvent", "IssueCommentEvent"}

calculateCollaborationScore(events, r) ==
  IF Len(events) = 0 THEN r * 3 + 3000
  ELSE
    LET collaborativeEvents == Count(events, IsCollaborative)
        orgEvents == Count(events, LAMBDA e : IsPresent(e.org))
        watchEvents == Count(events, LAMBDA e : e.type = "WatchEvent")
        forkEvents == Count(events, LAMBDA e : e.type = "ForkEvent")
        n == Max(Len(events), 1)
        score == Min(4000, (collaborativeEvents * 10000) \div n)
                 + Min(2000, (orgEvents * 8000) \div n)
                 + Min(2000, (watchEvents * 20000) \div n)
                 + Min(2000, (forkEvents * 15000) \div n)
    IN Clamp(score)

\* Object.keys(groupEventsByDay(events)): the days, in order of first appearance
groupDays(events) == Dedup([i \in 1..Len(events) |-> ToDateString(events[i].created_at)])

\* groupEventsByDay(events)[date]
groupEventsByDay(events, date) ==
  SelectSeq(events, LAMBDA e : ToDateString(e.created_at) = date)

\* thousandths of a / b
Ratio(a, b) == (a * 1000) \div b

\* floor(sqrt(n)), by bisection on lo..hi with lo^2 <= n < (hi+1)^2
RECURSIVE SqrtBetween(_, _, _)
SqrtBetween(n, lo, hi) ==
  IF lo >= hi THEN lo
  ELSE LET mid == (lo + hi + 1) \div 2
       IN IF mid * mid <= n THEN SqrtBetween(n, mid, hi) ELSE SqrtBetween(n, lo, mid - 1)

Sqrt(n) == SqrtBetween(n, 0, Min(n, 46340))

\* The score before clamping, for events on at least 7 days
consistencyPoints(events) ==
    LET days == groupDays(events)
    IN   LET activityCounts == [i \in 1..Len(days) |-> Len(groupEventsByDay(events, days[i]))]
             k == Len(activityCounts)
             total == Sum(activityCounts)
             squares == Sum([i \in 1..k |-> activityCounts[i] * activityCounts[i]])
             \* stdDev / mean = sqrt(k * squares - total^2) / total, times 5, in thousandths
             variation5 == (Sqrt((k * squares - total * total) * 10000) * 50) \div total
             weekdayActivity ==
               SelectSeq([i \in 1..k |-> IF days[i] % 7 \in {0, 6} THEN 0 ELSE activityCounts[i]],
                         LAMBDA c : c > 0)
             weekendActivity ==
               SelectSeq([i \in 1..k |-> IF days[i] % 7 \in {0, 6} THEN activityCounts[i] ELSE 0],
                         LAMBDA c : c > 0)
             weekdayMean == IF Len(weekdayActivity) > 0
                            THEN Ratio(Sum(weekdayActivity), Len(weekdayActivity)) ELSE 0
             weekendMean == IF Len(weekendActivity) > 0
                            THEN Ratio(Sum(weekendActivity), Len(weekendActivity)) ELSE 0
             difference == IF weekdayMean >= weekendMean
                           THEN weekdayMean - weekendMean ELSE weekendMean - weekdayMean
             workLifeBalance == Ratio(difference, Max(Max(weekdayMean, weekendMean), 1000))
             score == 10000 - variation5 + Min(2000, (1000 - workLifeBalance) * 2)
         IN score

\* calculateConsistencyScore with the first placeholder drawn from 5-9 instead of 3-7
calculateConsistencyScore_wideDraw(events, r) ==
  IF Len(events) < 5 THEN r * 4 + 5000
  ELSE IF Len(groupDays(events)) < 7 THEN r * 3 + 4000
  ELSE Clamp(consistencyPoints(events))

calculateConsistencyScore(events, r) ==
  IF Len(events) < 5 THEN r * 4 + 3000
  ELSE IF Len(groupDays(events)) < 7 THEN r * 3 + 4000
  ELSE Clamp(consistencyPoints(events))

languageCategories ==
  [frontend |-> {"JavaScript", "TypeScript", "HTML", "CSS", "Vue", "React"},
   backend |-> {"Java", "Python", "C#", "PHP", "Ruby", "Go", "Rust", "Node.js"},
   mobile |-> {"Swift", "Kotlin", "Dart", "Objective-C"},
   systems |-> {"C", "C++", "Rust", "Assembly"},
   data |-> {"Python", "R", "Julia", "MATLAB", "Scala"},
   functional |-> {"Haskell", "Clojure", "F#", "Erlang", "Elixir"}]

emergingTech == {"Rust", "Go", "TypeScript", "Dart", "Julia", "Zig", "WebAssembly"}

\* The project types one repository adds to the projectTypes set
explorationProjectTypes(repo) ==
  LET name == LowerOrEmpty(repo.name)
      desc == LowerOrEmpty(repo.description)
  IN (IF Includes(name, <<"w", "e", "b">>) \/ Includes(desc, <<"w", "e", "b", "s", "i", "t", "e">>) THEN {"web"} ELSE {})
     \cup (IF Includes(name, <<"m", "o", "b", "i", "l", "e">>) \/ Includes(desc, <<"a", "n", "d", "r", "o", "i", "d">>)
              \/ Includes(desc, <<"i", "o", "s">>) THEN {"mobile"} ELSE {})
     \cup (IF Includes(name, <<"a", "p", "i">>) \/ Includes(desc, <<"a", "p", "i">>) THEN {"api"} ELSE {})
     \cup (IF Includes(name, <<"c", "l", "i">>) \/ Includes(desc, <<"c", "o", "m", "m", "a", "n", "d">>) THEN {"cli"} ELSE {})
     \cup (IF Includes(desc, <<"l", "i", "b", "r", "a", "r", "y">>) \/ Includes(desc, <<"f", "r", "a", "m", "e", "w", "o", "r", "k">>)
           THEN {"library"} ELSE {})
     \cup (IF Includes(desc, <<"g", "a", "m", "e">>) THEN {"game"} ELSE {})
     \cup (IF Includes(desc, <<"m", "l">>) \/ Includes(desc, <<"a", "i">>) THEN {"ai"} ELSE {})

\* The language-diversity term counting every repository that has a language
explorationLanguageTerm_perRepository(repos) ==
  Min(3000, Len(Languages(repos)) * 500)

\* Math.min(3, uniqueLanguages.size * 0.5)
explorationLanguageTerm(repos) ==
  LET languages == Languages(repos)
      uniqueLanguages == {languages[i] : i \in 1..Len(languages)}
  IN Min(3000, Cardinality(uniqueLanguages) * 500)

calculateExplorationScore(repos, r) ==
  IF Len(repos) = 0 THEN r * 3 + 4000
  ELSE
    LET languages == Languages(repos)
        uniqueLanguages == {languages[i] : i \in 1..Len(languages)}
        categoriesUsed ==
          {c \in DOMAIN languageCategories : uniqueLanguages \cap languageCategories[c] /= {}}
        emergingCount == Cardinality(uniqueLanguages \cap emergingTech)
        projectTypes == UNION {explorationProjectTypes(repos[i]) : i \in 1..Len(repos)}
        score == explorationLanguageTerm(repos)
                 + Min(3000, Cardinality(categoriesUsed) * 800)
                 + Min(2000, emergingCount * 800)
                 + Min(2000, Cardinality(projectTypes) * 400)
    IN Clamp(score)

\* floor(1000 * log10(k)) for k = 1..99
Log10Table ==
  <<0, 301, 477, 602, 698, 778, 845, 903, 954, 1000,
    1041, 1079, 1113, 1146, 1176, 1204, 1230, 1255, 1278, 1301,
    1322, 1342, 1361, 1380, 1397, 1414, 1431, 1447, 1462, 1477,
    1491, 1505, 1518, 1531, 1544, 1556, 1568, 1579, 1591, 1602,
    1612, 1623, 1633, 1643, 1653, 1662, 1672, 1681, 1690, 1698,
    1707, 1716, 1724, 1732, 1740, 1748, 1755, 1763, 1770, 1778,
    1785, 1792, 1799, 1806, 1812, 1819, 1826, 1832, 1838, 1845,
    1851, 1857, 1863, 1869, 1875, 1880, 1886, 1892, 1897, 1903,
    1908, 1913, 1919, 1924, 1929, 1934, 1939, 1944, 1949, 1954,
    1959, 1963, 1968, 1973, 1977, 1982, 1986, 1991, 1995>>

\* Math.log10(n) in thousandths for n >= 1, from the two leading digits of n
RECURSIVE Log10(_)
Log10(n) == IF n < 100 THEN Log10Table[n] ELSE 1000 + Log10(n \div 10)

calculateLeadershipScore(repos, events, r) ==
  IF Len(repos) = 0 /\ Len(events) = 0 THEN r * 3 + 2000
  ELSE
    LET ownedRepos == Count(repos, LAMBDA x : ~x.fork)
        totalRepos == IF Len(repos) = 0 THEN 1 ELSE Len(repos)
        starredRepos == Count(repos, LAMBDA x : OrZero(x.stargazers_count) > 5)
        organizationEvents == Count(events, LAMBDA e : IsPresent(e.org))
        mentorshipEvents ==
          Count(events, LAMBDA e : e.type \in {"IssueCommentEvent", "PullRequestReviewEvent"})
        totalStars == Sum([i \in 1..Len(repos) |-> OrZero(repos[i].stargazers_count)])
        n == Max(Len(events), 1)
        score == Min(2000, (ownedRepos * 3000) \div totalRepos)
                 + Min(2000, (starredRepos * 4000) \div Max(totalRepos, 1))
                 + Min(2000, (Log10(Max(totalStars, 1)) * 8) \div 10)
                 + Min(2000, (organizationEvents * 10000) \div n)
                 + Min(2000, (mentorshipEvents * 8000) \div n)
    IN Clamp(score)

-----------------------------------------------------------------------------
(* Personality profile *)

\* determinePersonalityType with the Reliable Contributor rule tried before Team Player
determinePersonalityType_reliableFirst(metrics) ==
  IF metrics.innovation > 7000 /\ metrics.exploration > 7000 THEN "Innovator"
  ELSE IF metrics.consistency > 8000 THEN "Reliable Contributor"
  ELSE IF metrics.collaboration > 7000 /\ metrics.consistency > 7000 THEN "Team Player"
  ELSE IF metrics.exploration > 8000 THEN "Technology Explorer"
  ELSE "Balanced Developer"

determinePersonalityType(metrics) ==
  IF metrics.innovation > 7000 /\ metrics.exploration > 7000 THEN "Innovator"
  ELSE IF metrics.collaboration > 7000 /\ metrics.consistency > 7000 THEN "Team Player"
  ELSE IF metrics.consistency > 8000 THEN "Reliable Contributor"
  ELSE IF metrics.exploration > 8000 THEN "Technology Explorer"
  ELSE "Balanced Developer"

generatePersonalityDescription(metrics) ==
  LET type == determinePersonalityType(metrics)
  IN CASE type = "Innovator" ->
            "You love experimenting with new technologies and creating original solutions."
       [] type = "Team Player" ->
            "You excel at collaboration and maintain consistent, reliable contributions."
       [] type = "Reliable Contributor" ->
            "You are known for consistent, high-quality work and dependability."
       [] type = "Technology Explorer" ->
            "You enjoy learning diverse technologies and exploring new domains."
       [] type = "Balanced Developer" ->
            "You maintain a well-rounded approach to development and collaboration."
       [] OTHER -> "A skilled developer with unique strengths."

\* identifyStrengths counting a score of 7 as a strength
identifyStrengths_fromSeven(metrics) ==
  LET strengths ==
        (IF metrics.innovation >= 7000 THEN <<"Innovation & Creativity">> ELSE <<>>)
        \o (IF metrics.collaboration >= 7000 THEN <<"Team Collaboration">> ELSE <<>>)
        \o (IF metrics.consistency >= 7000 THEN <<"Reliable Delivery">> ELSE <<>>)
        \o (IF metrics.exploration >= 7000 THEN <<"Technology Adaptability">> ELSE <<>>)
        \o (IF metrics.leadership >= 7000 THEN <<"Technical Leadership">> ELSE <<>>)
  IN IF Len(strengths) > 0 THEN strengths ELSE <<"Dedicated Development", "Problem Solving">>

identifyStrengths(metrics) ==
  LET strengths ==
        (IF metrics.innovation > 7000 THEN <<"Innovation & Creativity">> ELSE <<>>)
        \o (IF metrics.collaboration > 7000 THEN <<"Team Collaboration">> ELSE <<>>)
        \o (IF metrics.consistency > 7000 THEN <<"Reliable Delivery">> ELSE <<>>)
        \o (IF metrics.exploration > 7000 THEN <<"Technology Adaptability">> ELSE <<>>)
        \o (IF metrics.leadership > 7000 THEN <<"Technical Leadership">> ELSE <<>>)
  IN IF Len(strengths) > 0 THEN strengths ELSE <<"Dedicated Development", "Problem Solving">>

identifyGrowthAreas(metrics) ==
  LET areas ==
        (IF metrics.innovation < 5000 THEN <<"Experiment with new technologies">> ELSE <<>>)
        \o (IF metrics.collaboration < 5000 THEN <<"Increase community involvement">> ELSE <<>>)
        \o (IF metrics.consistency < 5000 THEN <<"Develop regular coding habits">> ELSE <<>>)
        \o (IF metrics.exploration < 5000 THEN <<"Try diverse programming languages">> ELSE <<>>)
        \o (IF metrics.leadership < 5000 THEN <<"Take ownership of projects">> ELSE <<>>)
  IN IF Len(areas) > 0 THEN areas ELSE <<"Continue current excellent practices">>

\* draws: the Math.random() values of the five calculators
analyzePersonalityProfile(data, now, draws) ==
  LET events == OrEmpty(data.events)
      repos == OrEmpty(data.repositories)
      metrics == [innovation |-> calculateInnovationScore(repos, now, draws.innovation),
                  collaboration |-> calculateCollaborationScore(events, draws.collaboration),
                  consistency |-> calculateConsistencyScore(events, draws.consistency),
                  exploration |-> calculateExplorationScore(repos, draws.exploration),
                  leadership |-> calculateLeadershipScore(repos, events, draws.leadership)]
  IN [type |-> determinePersonalityType(metrics),
      scores |-> metrics,
      description |-> generatePersonalityDescription(metrics),
      strengths |-> identifyStrengths(metrics),
      growthAreas |-> identifyGrowthAreas(metrics)]

-----------------------------------------------------------------------------
(* Work patterns.  A 24-bucket or 7-bucket array is a sequence indexed     *)
(* from 1: bucket h of the code is element h + 1.                          *)

analyzeTimeDistribution(events) ==
  [h \in 1..24 |-> Count(events, LAMBDA e : GetHours(e.created_at) = h - 1)]

analyzeWeeklyPattern(events) ==
  [d \in 1..7 |-> Count(events, LAMBDA e : GetDay(e.created_at) = d - 1)]

\* Math.max(...array) of a non-empty array of counts
MaxOf(array) == CHOOSE m \in {array[i] : i \in 1..Len(array)} :
                  \A i \in 1..Len(array) : array[i] <= m

\* identifyPeakHours keeping only the hours above 80% of the maximum
identifyPeakHours_above(hourlyDistribution) ==
  LET maxActivity == MaxOf(hourlyDistribution)
      hours == [i \in 1..24 |-> i - 1]
  IN SelectSeq(hours, LAMBDA h : hourlyDistribution[h + 1] * 10 > maxActivity * 8)

identifyPeakHours(hourlyDistribution) ==
  LET maxActivity == MaxOf(hourlyDistribution)
      hours == [i \in 1..24 |-> i - 1]
  IN SelectSeq(hours, LAMBDA h : hourlyDistribution[h + 1] * 10 >= maxActivity * 8)

\* calculateVariance dividing the squares by length - 1
calculateVariance_sample(array) ==
  IF Len(array) <= 1 THEN 0
  ELSE LET k == Len(array)
           total == Sum(array)
           squares == Sum([i \in 1..k |-> array[i] * array[i]])
       IN ((k * squares - total * total) * 1000) \div (k * (k - 1))

\* in thousandths
calculateVariance(array) ==
  IF Len(array) = 0 THEN 0
  ELSE LET k == Len(array)
           total == Sum(array)
           squares == Sum([i \in 1..k |-> array[i] * array[i]])
       IN ((k * squares - total * total) * 1000) \div (k * k)

\* weekendRatio > 0.4, with Friday and Saturday taken for the weekend
weekendHeavy_fridaySaturday(weeklyDist) ==
  LET weekendActivity == weeklyDist[6] + weeklyDist[7]
      weekdayActivity == Sum(Slice(weeklyDist, 0, 5))
  IN weekendActivity * 10 > 4 * Max(weekendActivity + weekdayActivity, 1)

\* weekendRatio > 0.4, for weekendRatio = weekend / max(weekend + weekday, 1)
weekendHeavy(weeklyDist) ==
  LET weekendActivity == weeklyDist[1] + weeklyDist[7]
      weekdayActivity == Sum(Slice(weeklyDist, 1, 6))
  IN weekendActivity * 10 > 4 * Max(weekendActivity + weekdayActivity, 1)

determineWorkingStyle(hourlyDist, weeklyDist) ==
  LET totalActivity == Sum(hourlyDist)
      morningActivity == Sum(Slice(hourlyDist, 6, 12))
      afternoonActivity == Sum(Slice(hourlyDist, 12, 18))
      eveningActivity == Sum(Slice(hourlyDist, 18, 23))
      nightActivity == Sum(Slice(hourlyDist, 23, 24) \o Slice(hourlyDist, 0, 6))
      weekdayVariance == calculateVariance(Slice(weeklyDist, 1, 6))
      isConsistent == weekdayVariance < 2000
  IN IF totalActivity = 0 THEN "Getting Started"
     ELSE IF nightActivity * 10 > totalActivity * 4
       THEN (IF isConsistent THEN "Consistent Night Owl" ELSE "Irregular Night Coder")
     ELSE IF morningActivity * 10 > totalActivity * 4
       THEN (IF isConsistent THEN "Early Bird Developer" ELSE "Morning Burst Coder")
     ELSE IF weekendHeavy(weeklyDist)
       THEN (IF eveningActivity > afternoonActivity
             THEN "Weekend Evening Warrior" ELSE "Weekend Day Hacker")
     ELSE IF eveningActivity * 10 > totalActivity * 4
       THEN (IF isConsistent THEN "After-Hours Developer" ELSE "Evening Sprint Coder")
     ELSE IF afternoonActivity * 10 > totalActivity * 4
       THEN (IF isConsistent THEN "Afternoon Focused" ELSE "Midday Momentum")
     ELSE IF isConsistent THEN "Steady All-Day Contributor"
     ELSE "Flexible Schedule Coder"

\* The intensity contribution with its last step taken from 1.5 events per day on
burnoutIntensityPoints_fromOneAndAHalf(events) ==
  LET recentEvents == Slice(events, 0, Min(50, Len(events)))
      perDay == Min(30, Len(events))
  IN IF Len(recentEvents) > 3 * perDay THEN 3
     ELSE IF Len(recentEvents) > 2 * perDay THEN 2
     ELSE IF 2 * Len(recentEvents) >= 3 * perDay THEN 1
     ELSE 0

\* The four signal contributions of assessBurnoutRisk, for at least 20 events
burnoutIntensityPoints(events) ==
  LET recentEvents == Slice(events, 0, Min(50, Len(events)))
      perDay == Min(30, Len(events))
  IN IF Len(recentEvents) > 3 * perDay THEN 3
     ELSE IF Len(recentEvents) > 2 * perDay THEN 2
     ELSE IF 2 * Len(recentEvents) > 3 * perDay THEN 1
     ELSE 0

burnoutWeekendPoints(weeklyPattern) ==
  LET totalWeekly == Sum(weeklyPattern)
      weekend == IF totalWeekly > 0 THEN weeklyPattern[1] + weeklyPattern[7] ELSE 0
      whole == IF totalWeekly > 0 THEN totalWeekly ELSE 1
  IN IF weekend * 10 > 4 * whole THEN 3
     ELSE IF weekend * 10 > 3 * whole THEN 2
     ELSE IF weekend * 10 > 2 * whole THEN 1
     ELSE 0

burnoutLateNightPoints(events) ==
  LET recentEvents == Slice(events, 0, Min(50, Len(events)))
      hourlyDist == analyzeTimeDistribution(recentEvents)
      totalHourly == Sum(hourlyDist)
      late == IF totalHourly > 0
              THEN Sum(Slice(hourlyDist, 22, 24)) + Sum(Slice(hourlyDist, 0, 6)) ELSE 0
      whole == IF totalHourly > 0 THEN totalHourly ELSE 1
  IN IF late * 10 > 3 * whole THEN 2
     ELSE IF late * 10 > 2 * whole THEN 1
     ELSE 0

burnoutClusteringPoints(events) ==
  LET recentEvents == Slice(events, 0, Min(50, Len(events)))
      days == groupDays(recentEvents)
      heavyDays == Count(days, LAMBDA d : Len(groupEventsByDay(recentEvents, d)) > 5)
      whole == Max(Len(days), 1)
  IN IF heavyDays * 10 > 5 * whole THEN 2
     ELSE IF heavyDays * 10 > 3 * whole THEN 1
     ELSE 0

\* Level, advice and the top 2 recommendations of a risk score, with Medium from 5 up
burnoutVerdict_mediumFromFive(riskScore) ==
  IF riskScore >= 7
  THEN [level |-> "High", advice |-> "Take immediate steps to prevent burnout",
        recommendations |-> <<"Schedule regular breaks and vacation time",
                              "Set boundaries for work hours">>]
  ELSE IF riskScore >= 5
  THEN [level |-> "Medium", advice |-> "Monitor work intensity and maintain balance",
        recommendations |-> <<"Establish consistent work hours",
                              "Take weekends off when possible">>]
  ELSE IF riskScore >= 2
  THEN [level |-> "Low-Medium", advice |-> "Good work pattern with minor areas to watch",
        recommendations |-> <<"Continue current healthy patterns",
                              "Be mindful of late-night coding sessions">>]
  ELSE [level |-> "Low", advice |-> "Healthy work pattern detected",
        recommendations |-> <<"Excellent work-life balance",
                              "Keep maintaining current habits">>]

\* Level, advice and the top 2 recommendations of a risk score
burnoutVerdict(riskScore) ==
  IF riskScore >= 7
  THEN [level |-> "High", advice |-> "Take immediate steps to prevent burnout",
        recommendations |->
          Slice(<<"Schedule regular breaks and vacation time",
                  "Set boundaries for work hours",
                  "Consider delegating or reducing workload",
                  "Practice stress management techniques">>, 0, 2)]
  ELSE IF riskScore >= 4
  THEN [level |-> "Medium", advice |-> "Monitor work intensity and maintain balance",
        recommendations |->
          Slice(<<"Establish consistent work hours",
                  "Take weekends off when possible",
                  "Ensure adequate sleep schedule",
                  "Include non-coding activities in your routine">>, 0, 2)]
  ELSE IF riskScore >= 2
  THEN [level |-> "Low-Medium", advice |-> "Good work pattern with minor areas to watch",
        recommendations |->
          Slice(<<"Continue current healthy patterns",
                  "Be mindful of late-night coding sessions",
                  "Maintain work-life separation">>, 0, 2)]
  ELSE [level |-> "Low", advice |-> "Healthy work pattern detected",
        recommendations |->
          Slice(<<"Excellent work-life balance",
                  "Keep maintaining current habits",
                  "Consider sharing your approach with others">>, 0, 2)]

\* The sum of the four signal contributions
burnoutRiskScore(events, weeklyPattern) ==
  burnoutIntensityPoints(events) + burnoutWeekendPoints(weeklyPattern)
  + burnoutLateNightPoints(events) + burnoutClusteringPoints(events)

\* The result for a list long enough to be scored
burnoutScored(events, weeklyPattern) ==
  LET riskScore == burnoutRiskScore(events, weeklyPattern)
      verdict == burnoutVerdict(riskScore)
  IN [level |-> verdict.level,
      advice |-> verdict.advice,
      score |-> riskScore * 1000,
      recommendations |-> Present(verdict.recommendations)]

\* assessBurnoutRisk with the insufficient-data branch taken below 10 events
assessBurnoutRisk_belowTen(events, weeklyPattern, r) ==
  IF Len(events) < 10
  THEN [level |-> "Low",
        advice |-> "Build consistent coding habits gradually",
        score |-> r * 3 + 1000,
        recommendations |-> Absent]
  ELSE burnoutScored(events, weeklyPattern)

\* assessBurnoutRisk whose insufficient-data branch attaches the recommendations of Low
assessBurnoutRisk_placeholderAdvises(events, weeklyPattern, r) ==
  IF Len(events) < 20
  THEN [level |-> "Low",
        advice |-> "Build consistent coding habits gradually",
        score |-> r * 3 + 1000,
        recommendations |-> Present(burnoutVerdict(0).recommendations)]
  ELSE burnoutScored(events, weeklyPattern)

\* score in thousandths; recommendations is absent on the insufficient-data branch
assessBurnoutRisk(events, weeklyPattern, r) ==
  IF Len(events) < 20
  THEN [level |-> "Low",
        advice |-> "Build consistent coding habits gradually",
        score |-> r * 3 + 1000,
        recommendations |-> Absent]
  ELSE burnoutScored(events, weeklyPattern)

analyzeProjectJuggling(events) ==
  LET named == SelectSeq(events, LAMBDA e : IsPresent(e.repo))
      uniqueRepos == Cardinality({named[i].repo : i \in 1..Len(named)})
      totalEvents == IF Len(events) = 0 THEN 1 ELSE Len(events)
  IN [uniqueProjects |-> uniqueRepos,
      \* totalEvents / 0 is Infinity
      averageEventsPerProject |->
        IF uniqueRepos = 0 THEN [finite |-> FALSE, value |-> 0]
        ELSE [finite |-> TRUE, value |-> Ratio(totalEvents, uniqueRepos)],
      multitaskingScore |-> Min(10000, uniqueRepos * 2000)]

\* Array.prototype.sort on the timestamps of one day, ascending
RECURSIVE SortAscending(_)
SortAscending(times) ==
  IF times = <<>> THEN <<>>
  ELSE LET rest == SortAscending(Tail(times))
           k == Count(rest, LAMBDA t : t <= Head(times))
       IN SubSeq(rest, 1, k) \o <<Head(times)>> \o SubSeq(rest, k + 1, Len(rest))

\* The gaps under 4 hours between consecutive events of one day, in minutes
sessionGaps(dayEvents) ==
  LET times == SortAscending([i \in 1..Len(dayEvents) |-> Minutes(dayEvents[i].created_at)])
      gaps == [i \in 1..(Len(times) - 1) |-> times[i + 1] - times[i]]
  IN IF Len(dayEvents) < 2 THEN <<>> ELSE SelectSeq(gaps, LAMBDA g : g < 240)

\* dayEvents.sort((a, b) => new Date(a.created_at) - new Date(b.created_at)): the array
\* reordered by time, events of the same time keeping their order
SortByCreatedAt(dayEvents) ==
  LET before(i, j) ==
        \/ Minutes(dayEvents[i].created_at) < Minutes(dayEvents[j].created_at)
        \/ Minutes(dayEvents[i].created_at) = Minutes(dayEvents[j].created_at) /\ i < j
      rank(j) == Cardinality({i \in 1..Len(dayEvents) : before(i, j)}) + 1
  IN [k \in 1..Len(dayEvents) |-> dayEvents[CHOOSE j \in 1..Len(dayEvents) : rank(j) = k]]

\* The arrays after estimateSessionLength had the sort been applied to the argument
sessionArrays_sortsArgument(events) ==
  LET days == groupDays(events)
  IN IF Len(events) < 2 THEN [argument |-> events, dayEvents |-> <<>>]
     ELSE [argument |-> SortByCreatedAt(events),
           dayEvents |-> [i \in 1..Len(days) |-> groupEventsByDay(events, days[i])]]

\* The arrays after estimateSessionLength: the argument, which reduce only reads, and the
\* arrays that groupEventsByDay creates, each of 2 events or more sorted in place
sessionArrays(events) ==
  LET days == groupDays(events)
      sorted(dayEvents) == IF Len(dayEvents) < 2 THEN dayEvents ELSE SortByCreatedAt(dayEvents)
  IN IF Len(events) < 2 THEN [argument |-> events, dayEvents |-> <<>>]
     ELSE [argument |-> events,
           dayEvents |-> [i \in 1..Len(days) |-> sorted(groupEventsByDay(events, days[i]))]]

RECURSIVE Concat(_)
Concat(lists) == IF lists = <<>> THEN <<>> ELSE Head(lists) \o Concat(Tail(lists))

estimateSessionLength(events) ==
  IF Len(events) < 2 THEN [average |-> "Unknown", pattern |-> "Insufficient data"]
  ELSE
    LET days == groupDays(events)
        sessionLengths ==
          Concat([i \in 1..Len(days) |-> sessionGaps(groupEventsByDay(events, days[i]))])
    IN IF Len(sessionLengths) = 0 THEN [average |-> "1-2 hours", pattern |-> "Focused sessions"]
       ELSE IF Sum(sessionLengths) < 30 * Len(sessionLengths)
         THEN [average |-> "Short bursts", pattern |-> "Frequent check-ins"]
       ELSE IF Sum(sessionLengths) < 120 * Len(sessionLengths)
         THEN [average |-> "1-2 hours", pattern |-> "Focused sessions"]
       ELSE [average |-> "2+ hours", pattern |-> "Deep work sessions"]

\* in thousandths
calculateWorkConsistency(weeklyPattern) ==
  LET totalActivity == Sum(weeklyPattern)
      squares == Sum([i \in 1..7 |-> weeklyPattern[i] * weeklyPattern[i]])
      \* (stdDev / mean) * 3 = 3 * sqrt(7 * squares - total^2) / total
      variation3 == (Sqrt((7 * squares - totalActivity * totalActivity) * 10000) * 30)
                    \div totalActivity
  IN IF totalActivity = 0 THEN 5000 ELSE Max(0, Min(10000, 10000 - variation3))

\* draw: the Math.random() value of assessBurnoutRisk
analyzeWorkPatterns(data, draw) ==
  LET events == OrEmpty(data.events)
      hourlyDistribution == analyzeTimeDistribution(events)
      weeklyPattern == analyzeWeeklyPattern(events)
  IN [peakHours |-> identifyPeakHours(hourlyDistribution),
      workingStyle |-> determineWorkingStyle(hourlyDistribution, weeklyPattern),
      sessionLength |-> estimateSessionLength(events),
      multitasking |-> analyzeProjectJuggling(events),
      consistency |-> calculateWorkConsistency(weeklyPattern),
      burnoutRisk |-> assessBurnoutRisk(events, weeklyPattern, draw)]

-----------------------------------------------------------------------------
(* Coding style *)

\* language -> share of the repositories with a language, in thousandths
analyzeLanguagePreferences(repos) ==
  LET languages == Languages(repos)
  IN [l \in {languages[i] : i \in 1..Len(languages)} |->
        Ratio(Count(languages, LAMBDA x : x = l), Len(languages))]

\* The categories one repository pushes, in order
projectCategories(repo) ==
  LET name == LowerOrEmpty(repo.name)
      desc == LowerOrEmpty(repo.description)
  IN (IF Includes(name, <<"a", "p", "i">>) \/ Includes(desc, <<"a", "p", "i">>)
      THEN <<"API Development">> ELSE <<>>)
     \o (IF Includes(name, <<"w", "e", "b">>) \/ Includes(desc, <<"w", "e", "b", "s", "i", "t", "e">>)
         THEN <<"Web Development">> ELSE <<>>)
     \o (IF Includes(name, <<"m", "o", "b", "i", "l", "e">>) \/ Includes(desc, <<"a", "n", "d", "r", "o", "i", "d">>)
            \/ Includes(desc, <<"i", "o", "s">>) THEN <<"Mobile Development">> ELSE <<>>)
     \o (IF Includes(name, <<"g", "a", "m", "e">>) \/ Includes(desc, <<"g", "a", "m", "e">>)
         THEN <<"Game Development">> ELSE <<>>)
     \o (IF Includes(name, <<"m", "l">>) \/ Includes(desc, <<"m", "a", "c", "h", "i", "n", "e", " ", "l", "e", "a", "r", "n", "i", "n", "g">>)
            \/ Includes(desc, <<"a", "i">>) THEN <<"Machine Learning">> ELSE <<>>)
     \o (IF Includes(name, <<"t", "o", "o", "l">>) \/ Includes(desc, <<"t", "o", "o", "l">>)
            \/ Includes(desc, <<"u", "t", "i", "l", "i", "t", "y">>) THEN <<"Developer Tools">> ELSE <<>>)
     \o (IF Includes(name, <<"l", "i", "b">>) \/ Includes(desc, <<"l", "i", "b", "r", "a", "r", "y">>)
         THEN <<"Library Development">> ELSE <<>>)

\* `[...].slice(0, 5) || [...]`: an array is truthy even when empty
categorizeProjectTypes(repos) ==
  Slice(Dedup(Concat([i \in 1..Len(repos) |-> projectCategories(repos[i])])), 0, 5)

\* analyzeCommitStyle reading e.payload.commits.length without optional chaining
analyzeCommitStyle_noOptionalChaining(events) ==
  LET pushEvents == SelectSeq(events, LAMBDA e : e.type = "PushEvent")
      commitCounts ==
        [i \in 1..Len(pushEvents) |->
           LET p == pushEvents[i].payload
               n == IF IsPresent(p) THEN OrZero(Get(p).commits) ELSE 0
           IN IF n = 0 THEN 1 ELSE n]
  IN IF Len(pushEvents) = 0 THEN [style |-> "Unknown", pattern |-> "No push events found"]
     ELSE IF \E i \in 1..Len(pushEvents) :
               \/ ~IsPresent(pushEvents[i].payload)
               \/ ~IsPresent(Get(pushEvents[i].payload).commits)
       THEN [raised |-> TRUE]
     ELSE IF Sum(commitCounts) < 2 * Len(commitCounts)
       THEN [style |-> "Atomic Commits", pattern |-> "Small, focused changes"]
     ELSE IF Sum(commitCounts) < 5 * Len(commitCounts)
       THEN [style |-> "Moderate Batches", pattern |-> "Balanced approach"]
     ELSE [style |-> "Large Batches", pattern |-> "Comprehensive changes"]

analyzeCommitStyle(events) ==
  LET pushEvents == SelectSeq(events, LAMBDA e : e.type = "PushEvent")
      \* e.payload?.commits?.length || 1
      commitCounts ==
        [i \in 1..Len(pushEvents) |->
           LET p == pushEvents[i].payload
               n == IF IsPresent(p) THEN OrZero(Get(p).commits) ELSE 0
           IN IF n = 0 THEN 1 ELSE n]
  IN IF Len(pushEvents) = 0 THEN [style |-> "Unknown", pattern |-> "No push events found"]
     ELSE IF Sum(commitCounts) < 2 * Len(commitCounts)
       THEN [style |-> "Atomic Commits", pattern |-> "Small, focused changes"]
     ELSE IF Sum(commitCounts) < 5 * Len(commitCounts)
       THEN [style |-> "Moderate Batches", pattern |-> "Balanced approach"]
     ELSE [style |-> "Large Batches", pattern |-> "Comprehensive changes"]

analyzeTestingApproach(repos) ==
  LET testIndicators ==
        Count(repos, LAMBDA x : Includes(LowerOrEmpty(x.name), <<"t", "e", "s", "t">>)
                                \/ Includes(LowerOrEmpty(x.description), <<"t", "e", "s", "t">>)
                                \/ Includes(LowerOrEmpty(x.description), <<"t", "e", "s", "t", "i", "n", "g">>))
      total == IF Len(repos) = 0 THEN 1 ELSE Len(repos)
  IN IF testIndicators * 10 > 3 * total THEN "Test-Driven Development"
     ELSE IF testIndicators * 10 > total THEN "Testing-Aware"
     ELSE "Exploratory Development"

\* The patterns one repository pushes, in order
architecturePatterns(repo) ==
  LET desc == LowerOrEmpty(repo.description)
  IN (IF Includes(desc, <<"m", "i", "c", "r", "o", "s", "e", "r", "v", "i", "c", "e">>) \/ Includes(desc, <<"m", "i", "c", "r", "o", "-", "s", "e", "r", "v", "i", "c", "e">>)
      THEN <<"Microservices">> ELSE <<>>)
     \o (IF Includes(desc, <<"m", "o", "n", "o", "l", "i", "t", "h">>) THEN <<"Monolithic">> ELSE <<>>)
     \o (IF Includes(desc, <<"s", "e", "r", "v", "e", "r", "l", "e", "s", "s">>) \/ Includes(desc, <<"l", "a", "m", "b", "d", "a">>)
         THEN <<"Serverless">> ELSE <<>>)
     \o (IF Includes(desc, <<"d", "o", "c", "k", "e", "r">>) \/ Includes(desc, <<"c", "o", "n", "t", "a", "i", "n", "e", "r">>)
         THEN <<"Containerized">> ELSE <<>>)
     \o (IF Includes(desc, <<"m", "v", "c">>) \/ Includes(desc, <<"m", "v", "p">>) \/ Includes(desc, <<"m", "v", "v", "m">>)
         THEN <<"MV* Pattern">> ELSE <<>>)

analyzeArchitectureStyle(repos) ==
  Slice(Dedup(Concat([i \in 1..Len(repos) |-> architecturePatterns(repos[i])])), 0, 3)

analyzeCodingStyle(data) ==
  LET repos == OrEmpty(data.repositories)
      events == OrEmpty(data.events)
  IN [languagePreferences |-> analyzeLanguagePreferences(repos),
      projectTypes |-> categorizeProjectTypes(repos),
      commitStyle |-> analyzeCommitStyle(events),
      testingApproach |-> analyzeTestingApproach(repos),
      architectureStyle |-> analyzeArchitectureStyle(repos)]

-----------------------------------------------------------------------------
(* Collaboration style *)

\* in thousandths
assessTeamPlayerScore(events) ==
  LET total == IF Len(events) = 0 THEN 1 ELSE Len(events)
  IN Min(10000, (Count(events, IsCollaborative) * 20000) \div total)

analyzeMentorshipStyle(events) ==
  LET helpfulEvents ==
        Count(events, LAMBDA e : e.type \in {"IssueCommentEvent", "PullRequestReviewEvent"})
  IN IF helpfulEvents > 20 THEN "Active Mentor"
     ELSE IF helpfulEvents > 10 THEN "Helpful Contributor"
     ELSE IF helpfulEvents > 5 THEN "Occasional Helper"
     ELSE "Focus on Own Work"

analyzeCommunicationStyle(events) ==
  LET communicationEvents ==
        Count(events, LAMBDA e : e.type \in {"IssueCommentEvent", "PullRequestReviewEvent",
                                             "IssuesEvent"})
      total == IF Len(events) = 0 THEN 1 ELSE Len(events)
  IN IF communicationEvents * 10 > 4 * total THEN "Highly Communicative"
     ELSE IF communicationEvents * 10 > 2 * total THEN "Good Communicator"
     ELSE IF communicationEvents * 10 > total THEN "Moderate Communicator"
     ELSE "Task-Focused"

assessLeadershipTendencies(repos, events) ==
  LET ownedRepos == Count(repos, LAMBDA x : ~x.fork)
      starredRepos == Sum([i \in 1..Len(repos) |-> OrZero(repos[i].stargazers_count)])
      organizationActivity == Count(events, LAMBDA e : IsPresent(e.org))
      \* leadership * 100 = ownedRepos * 20 + starredRepos + organizationActivity * 5
      leadership100 == ownedRepos * 20 + starredRepos + organizationActivity * 5
  IN IF leadership100 > 800 THEN "Strong Leader"
     ELSE IF leadership100 > 500 THEN "Emerging Leader"
     ELSE IF leadership100 > 200 THEN "Team Contributor"
     ELSE "Individual Contributor"

estimateNetworkSize(events) ==
  LET named == SelectSeq(events, LAMBDA e : IsPresent(e.repo))
      uniqueRepos == Cardinality({named[i].repo : i \in 1..Len(named)})
      inOrg == SelectSeq(events, LAMBDA e : IsPresent(e.org))
      uniqueOrgs == Cardinality({inOrg[i].org : i \in 1..Len(inOrg)})
  IN [repositoryNetwork |-> uniqueRepos,
      organizationNetwork |-> uniqueOrgs,
      networkScore |-> Min(10000, uniqueRepos * 200 + uniqueOrgs * 2000)]

analyzeCollaborationStyle(data) ==
  LET events == OrEmpty(data.events)
      repos == OrEmpty(data.repositories)
  IN [teamPlayer |-> assessTeamPlayerScore(events),
      mentorshipStyle |-> analyzeMentorshipStyle(events),
      communicationStyle |-> analyzeCommunicationStyle(events),
      leadership |-> assessLeadershipTendencies(repos, events),
      networkSize |-> estimateNetworkSize(events)]

-----------------------------------------------------------------------------
(* Recommendations.  A recommendation record keeps its type, title and     *)
(* confidence (thousandths); description and icon are fixed per title.     *)

Rec(type, title, confidence) == [type |-> type, title |-> title, confidence |-> confidence]

\* push the record when the rule holds
When(rule, rec) == IF rule THEN <<rec>> ELSE <<>>

\* The completion of an operation that raised a TypeError
TypeError == [raised |-> TRUE]

Raised(completion) == "raised" \in DOMAIN completion /\ completion.raised

\* analyzeBasicPatterns reading the arrays without optional chaining
analyzeBasicPatterns_noOptionalChaining(data) ==
  IF ~IsPresent(data.repositories) \/ ~IsPresent(data.events) THEN TypeError
  ELSE [languages |-> Languages(Get(data.repositories)),
        repoCount |-> OrZero(data.public_repos),
        followerCount |-> OrZero(data.followers),
        recentActivity |-> Len(Get(data.events))]

analyzeBasicPatterns(data) ==
  [languages |-> IF IsPresent(data.repositories) THEN Languages(Get(data.repositories)) ELSE <<>>,
   repoCount |-> OrZero(data.public_repos),
   followerCount |-> OrZero(data.followers),
   recentActivity |-> IF IsPresent(data.events) THEN Len(Get(data.events)) ELSE 0]

\* generateTechRecommendations without the test for TypeScript among the languages
generateTechRecommendations_typeScriptUnguarded(summary) ==
  LET languages == summary.languages
      repoCount == summary.repoCount
      recentActivity == summary.recentActivity
      recommendations ==
        When(Has(languages, "JavaScript"),
             Rec("Technology", "Upgrade to TypeScript", 900))
        \o When(Has(languages, "JavaScript") /\ ~Has(languages, "React") /\ ~Has(languages, "Vue"),
                Rec("Technology", "Learn React or Vue.js", 800))
        \o When(Has(languages, "Python") /\ repoCount > 5,
                Rec("Technology", "Explore FastAPI", 800))
        \o When(Has(languages, "Python") /\ ~Has(languages, "Java") /\ ~Has(languages, "Go"),
                Rec("Technology", "Try Go Programming", 700))
        \o When(Has(languages, "Java"), Rec("Technology", "Explore Kotlin", 800))
        \o When(recentActivity > 20, Rec("Technology", "Container Technologies", 900))
        \o When(repoCount > 10, Rec("Technology", "CI/CD Automation", 850))
        \o When(Len(languages) = 0, Rec("Technology", "Start with JavaScript", 900))
  IN Slice(recommendations, 0, 3)

generateTechRecommendations(summary) ==
  LET languages == summary.languages
      repoCount == summary.repoCount
      recentActivity == summary.recentActivity
      recommendations ==
        When(Has(languages, "JavaScript") /\ ~Has(languages, "TypeScript"),
             Rec("Technology", "Upgrade to TypeScript", 900))
        \o When(Has(languages, "JavaScript") /\ ~Has(languages, "React") /\ ~Has(languages, "Vue"),
                Rec("Technology", "Learn React or Vue.js", 800))
        \o When(Has(languages, "Python") /\ repoCount > 5,
                Rec("Technology", "Explore FastAPI", 800))
        \o When(Has(languages, "Python") /\ ~Has(languages, "Java") /\ ~Has(languages, "Go"),
                Rec("Technology", "Try Go Programming", 700))
        \o When(Has(languages, "Java"), Rec("Technology", "Explore Kotlin", 800))
        \o When(recentActivity > 20, Rec("Technology", "Container Technologies", 900))
        \o When(repoCount > 10, Rec("Technology", "CI/CD Automation", 850))
        \o When(Len(languages) = 0, Rec("Technology", "Start with JavaScript", 900))
  IN Slice(recommendations, 0, 3)

generateLearningRecommendations(summary) ==
  LET languages == summary.languages
      repoCount == summary.repoCount
      followerCount == summary.followerCount
      recommendations ==
        (IF repoCount < 5
         THEN <<Rec("Learning", "Git & GitHub Mastery", 950),
                Rec("Learning", "Algorithm & Data Structures", 900)>>
         ELSE IF repoCount < 15
         THEN <<Rec("Learning", "System Design Patterns", 850),
                Rec("Learning", "Testing Best Practices", 800)>>
         ELSE <<Rec("Learning", "Cloud Architecture", 800),
                Rec("Learning", "Technical Leadership", 750)>>)
        \o When(Has(languages, "JavaScript") /\ Has(languages, "Python"),
                Rec("Learning", "Full-Stack Development", 900))
        \o When(followerCount > 50, Rec("Learning", "Developer Advocacy", 700))
  IN Slice(recommendations, 0, 2)

generateProductivityRecommendations(summary) ==
  LET recentActivity == summary.recentActivity
      repoCount == summary.repoCount
      recommendations ==
        (IF recentActivity > 30
         THEN <<Rec("Productivity", "Automate Repetitive Tasks", 900),
                Rec("Productivity", "Time Management", 800)>>
         ELSE IF recentActivity < 10
         THEN <<Rec("Productivity", "Consistent Coding Schedule", 850)>>
         ELSE <<>>)
        \o When(repoCount > 20, Rec("Productivity", "Repository Organization", 800))
        \o <<Rec("Productivity", "Code Review Practices", 750)>>
  IN Slice(recommendations, 0, 2)

generateCareerRecommendations(summary) ==
  LET repoCount == summary.repoCount
      followerCount == summary.followerCount
      languages == summary.languages
      recommendations ==
        (IF repoCount > 15 /\ followerCount > 30
         THEN <<Rec("Career", "Technical Leadership Role", 850)>>
         ELSE IF repoCount > 8
         THEN <<Rec("Career", "Senior Developer Position", 800)>>
         ELSE <<>>)
        \o When(Len(languages) > 3, Rec("Career", "Full-Stack Development", 800))
        \o When(followerCount > 100, Rec("Career", "Developer Relations", 750))
        \o <<Rec("Career", "Open Source Contribution", 900)>>
        \o When(Has(languages, "Python") \/ Has(languages, "JavaScript"),
                Rec("Career", "Freelance Opportunities", 700))
  IN Slice(recommendations, 0, 2)

\* generateRecommendations without the final slice(0, 8)
generateRecommendations_noSlice(data) ==
  LET summary == analyzeBasicPatterns(data)
      recommendations == generateTechRecommendations(summary)
                         \o generateLearningRecommendations(summary)
                         \o generateProductivityRecommendations(summary)
                         \o generateCareerRecommendations(summary)
  IN IF Raised(summary) THEN TypeError
     ELSE [raised |-> FALSE, value |-> recommendations]

\* A completion: raised when analyzeBasicPatterns raised, else the list as value
generateRecommendations(data) ==
  LET summary == analyzeBasicPatterns(data)
      recommendations == generateTechRecommendations(summary)
                         \o generateLearningRecommendations(summary)
                         \o generateProductivityRecommendations(summary)
                         \o generateCareerRecommendations(summary)
  IN IF Raised(summary) THEN TypeError
     ELSE [raised |-> FALSE, value |-> Slice(recommendations, 0, 8)]

-----------------------------------------------------------------------------
(* Predictions *)

progressionMap ==
  [l \in {"JavaScript", "TypeScript", "Python", "Java", "C#", "Go", "Rust", "PHP"} |->
     CASE l = "JavaScript" ->
            [primary |-> <<"TypeScript", "React", "Vue.js", "Node.js">>,
             advanced |-> <<"Deno", "WebAssembly", "GraphQL", "Next.js">>]
       [] l = "TypeScript" ->
            [primary |-> <<"React", "Angular", "Vue.js", "Svelte">>,
             advanced |-> <<"NestJS", "Prisma", "tRPC", "SolidJS">>]
       [] l = "Python" ->
            [primary |-> <<"Django", "FastAPI", "Flask", "TensorFlow">>,
             advanced |-> <<"PyTorch", "Pandas", "Celery", "Airflow">>]
       [] l = "Java" ->
            [primary |-> <<"Spring Boot", "Kotlin", "Maven", "Gradle">>,
             advanced |-> <<"Quarkus", "Micronaut", "Scala", "Clojure">>]
       [] l = "C#" ->
            [primary |-> <<".NET Core", "ASP.NET", "Blazor", "Unity">>,
             advanced |-> <<"F#", "Azure Functions", "SignalR", "gRPC">>]
       [] l = "Go" ->
            [primary |-> <<"Gin", "Echo", "Docker", "Kubernetes">>,
             advanced |-> <<"gRPC", "Cobra", "Viper", "NATS">>]
       [] l = "Rust" ->
            [primary |-> <<"Actix", "Rocket", "Tokio", "Serde">>,
             advanced |-> <<"WebAssembly", "Tauri", "Bevy", "egui">>]
       [] l = "PHP" ->
            [primary |-> <<"Laravel", "Symfony", "Composer", "PHPUnit">>,
             advanced |-> <<"ReactPHP", "Swoole", "Psalm", "Rector">>]]

trendingTech ==
  <<"Rust", "Go", "TypeScript", "Svelte", "Astro", "Deno",
    "WebAssembly", "Tauri", "SolidJS", "Qwik", "Fresh", "Bun">>

\* What one recently used language pushes onto the suggestions
progressionSuggestions(lang, languages) ==
  IF lang \notin DOMAIN progressionMap THEN <<>>
  ELSE LET primary == SelectSeq(progressionMap[lang].primary, LAMBDA t : ~Has(languages, t))
           advanced == SelectSeq(progressionMap[lang].advanced, LAMBDA t : ~Has(languages, t))
       IN Slice(primary, 0, 2)
          \o (IF Count(languages, LAMBDA l : l = lang) >= 3 THEN Slice(advanced, 0, 1) ELSE <<>>)

getTechRecommendationReasoning(languages, uniqueLanguages) ==
  IF uniqueLanguages >= 5 THEN "Based on your diverse technology experience"
  ELSE IF Has(languages, "JavaScript") /\ Has(languages, "Python")
    THEN "Perfect for full-stack development progression"
  ELSE IF Has(languages, "JavaScript") THEN "Natural evolution of your JavaScript skills"
  ELSE IF Has(languages, "Python") THEN "Complements your Python expertise well"
  ELSE "Popular choice for modern development"

\* nextTechnologyConfidence without the cap Math.min(0.9, ...)
nextTechnologyConfidence_noCap(uniqueLanguages, repoCount) ==
  500 + uniqueLanguages * 100 + repoCount * 10

\* Math.min(0.9, 0.5 + (uniqueLanguages * 0.1) + (repos.length * 0.01))
nextTechnologyConfidence(uniqueLanguages, repoCount) ==
  Min(900, 500 + uniqueLanguages * 100 + repoCount * 10)

\* The suggestions in the order they are pushed
nextTechnologySuggestions(repos) ==
  LET languages == Languages(repos)
      recentLanguages == Languages(Slice(repos, 0, 5))
      unusedTrending == SelectSeq(trendingTech, LAMBDA t : ~Has(languages, t))
  IN Concat([i \in 1..Len(recentLanguages) |->
               progressionSuggestions(recentLanguages[i], languages)])
     \o (IF UniqueCount(languages) >= 3 THEN Slice(unusedTrending, 0, 2) ELSE <<>>)

\* The candidates without the removal of duplicates
nextTechnologyCandidates_withDuplicates(repos) == nextTechnologySuggestions(repos)

\* uniqueSuggestions: [...new Set(suggestions)]
nextTechnologyCandidates(repos) == Dedup(nextTechnologySuggestions(repos))

predictNextTechnology(repos) ==
  LET languages == Languages(repos)
      uniqueLanguages == UniqueCount(languages)
      uniqueSuggestions == nextTechnologyCandidates(repos)
  IN [primary |-> IF Len(uniqueSuggestions) > 0 THEN uniqueSuggestions[1] ELSE "React",
      alternatives |-> Slice(uniqueSuggestions, 1, 4),
      confidence |-> nextTechnologyConfidence(uniqueLanguages, Len(repos)),
      reasoning |-> getTechRecommendationReasoning(languages, uniqueLanguages)]

\* The three chunks with the middle one starting one event late
activityChunks_gap(events) ==
  LET n == Len(events)
  IN <<Slice(events, 0, n \div 3),
       Slice(events, n \div 3 + 1, (n * 2) \div 3),
       Slice(events, (n * 2) \div 3, n)>>

\* The three chunks with the first boundary at a quarter of the list
activityChunks_quarter(events) ==
  LET n == Len(events)
  IN <<Slice(events, 0, n \div 4),
       Slice(events, n \div 4, (n * 2) \div 3),
       Slice(events, (n * 2) \div 3, n)>>

\* recent, middle and older
activityChunks(events) ==
  LET n == Len(events)
  IN <<Slice(events, 0, n \div 3),
       Slice(events, n \div 3, (n * 2) \div 3),
       Slice(events, (n * 2) \div 3, n)>>

predictActivityTrend(events) ==
  IF Len(events) < 10
  THEN [trend |-> "Building Momentum", confidence |-> 600,
        description |-> <<"Start building consistent coding habits", "">>]
  ELSE
    LET recent == activityChunks(events)[1]
        middle == activityChunks(events)[2]
        older == activityChunks(events)[3]
        recentActivity == Len(recent)
        middleActivity == Len(middle)
        olderActivity == Len(older)
        \* overallTrend = (recent / max(middle, 1) + middle / max(older, 1)) / 2, as num / den
        num == recentActivity * Max(olderActivity, 1) + middleActivity * Max(middleActivity, 1)
        den == 2 * Max(middleActivity, 1) * Max(olderActivity, 1)
        commitEvents == Count(recent, LAMBDA e : e.type = "PushEvent")
        collaborativeEvents ==
          Count(recent, LAMBDA e : e.type \in {"PullRequestEvent", "IssuesEvent"})
        \* the text appended to the description after a bullet
        suffix == IF collaborativeEvents > commitEvents THEN "Strong collaboration focus"
                  ELSE IF commitEvents > collaborativeEvents * 2 THEN "High development velocity"
                  ELSE ""
        base == IF num * 10 > 13 * den
                  THEN [trend |-> "Rapidly Increasing", confidence |-> 900,
                        description |-> "Your coding activity is accelerating significantly"]
                ELSE IF num * 10 > 11 * den
                  THEN [trend |-> "Steadily Growing", confidence |-> 800,
                        description |-> "Consistent upward trend in development activity"]
                ELSE IF num * 10 > 9 * den
                  THEN [trend |-> "Stable & Consistent", confidence |-> 900,
                        description |-> "Maintaining steady development rhythm"]
                ELSE IF num * 10 > 7 * den
                  THEN [trend |-> "Slightly Decreasing", confidence |-> 800,
                        description |-> "Minor decline, consider new projects for motivation"]
                ELSE [trend |-> "Needs Attention", confidence |-> 700,
                      description |->
                        "Activity has decreased, time to reignite your coding passion"]
    IN [trend |-> base.trend, confidence |-> base.confidence,
        description |-> <<base.description, suffix>>]

\* The earlier of the two definitions of predictCollaborationGrowth (trend and confidence)
predictCollaborationGrowth_firstDefinition(events) ==
  LET collaborativeEvents == SelectSeq(events, IsCollaborative)
      n == Len(collaborativeEvents)
      recentCollab == n \div 2
      olderCollab == n - n \div 2
  IN IF n < 5 THEN [trend |-> "Start Collaborating", confidence |-> 700]
     ELSE IF recentCollab * 10 > 15 * Max(olderCollab, 1)
       THEN [trend |-> "Rapidly Expanding Network", confidence |-> 900]
     ELSE IF recentCollab * 10 > 12 * Max(olderCollab, 1)
       THEN [trend |-> "Growing Collaboration", confidence |-> 800]
     ELSE IF recentCollab * 10 > 8 * Max(olderCollab, 1)
       THEN [trend |-> "Stable Community Presence", confidence |-> 800]
     ELSE [trend |-> "Rebuild Connections", confidence |-> 700]

\* The later of the two definitions in the object literal is the one in effect
predictCollaborationGrowth(events) ==
  LET recent == Slice(events, 0, 15)
      older == Slice(events, 15, 30)
      recentCollab == Count(recent, LAMBDA e : e.type \in {"PullRequestEvent", "IssuesEvent"})
      olderCollab == Count(older, LAMBDA e : e.type \in {"PullRequestEvent", "IssuesEvent"})
  IN IF recentCollab * 10 > olderCollab * 13
       THEN [trend |-> "Increasing Collaboration", confidence |-> 800]
     ELSE IF recentCollab * 10 < olderCollab * 7
       THEN [trend |-> "Focusing Inward", confidence |-> 700]
     ELSE [trend |-> "Stable Collaboration", confidence |-> 900]

\* r.description?.includes(word): false when the description is absent
DescriptionIncludes(repo, word) ==
  IsPresent(repo.description) /\ Includes(Get(repo.description), word)

\* The later of the two definitions in the object literal is the one in effect
predictSkillDevelopment(repos, events) ==
  LET recentRepos == Slice(repos, 0, 5)
      recentLanguages == UniqueCount(Languages(recentRepos))
      experimentalProjects ==
        Count(recentRepos, LAMBDA x : DescriptionIncludes(x, <<"l", "e", "a", "r", "n", "i", "n", "g">>)
                                      \/ DescriptionIncludes(x, <<"t", "u", "t", "o", "r", "i", "a", "l">>)
                                      \/ DescriptionIncludes(x, <<"e", "x", "p", "e", "r", "i", "m", "e", "n", "t">>))
  IN [learningVelocity |-> IF experimentalProjects > 2 THEN "High"
                           ELSE IF experimentalProjects > 0 THEN "Moderate" ELSE "Stable",
      skillDiversification |-> IF recentLanguages > 2 THEN "Expanding" ELSE "Deepening",
      confidence |-> 700]

generatePredictions(data) ==
  LET events == OrEmpty(data.events)
      repos == OrEmpty(data.repositories)
  IN [nextTechnology |-> predictNextTechnology(repos),
      activityTrend |-> predictActivityTrend(events),
      collaborationGrowth |-> predictCollaborationGrowth(events),
      skillDevelopment |-> predictSkillDevelopment(repos, events)]

-----------------------------------------------------------------------------
(* Risk analysis *)

assessSkillStagnation(repos) ==
  LET uniqueLanguages == UniqueCount(Languages(repos))
      recentLanguages == UniqueCount(Languages(Slice(repos, 0, 5)))
  IN IF recentLanguages * 10 < uniqueLanguages * 3
     THEN [level |-> "Medium",
           advice |-> "Consider exploring new technologies to maintain growth"]
     ELSE [level |-> "Low", advice |-> "Good variety in technology exploration"]

assessCollaborationIsolation(events) ==
  LET collaborativeEvents ==
        Count(events, LAMBDA e : e.type \in {"PullRequestEvent", "IssuesEvent",
                                             "PullRequestReviewEvent"})
      total == IF Len(events) = 0 THEN 1 ELSE Len(events)
  IN IF collaborativeEvents * 10 < total
       THEN [level |-> "High", advice |-> "Consider engaging more with the GitHub community"]
     ELSE IF collaborativeEvents * 10 < 2 * total
       THEN [level |-> "Medium",
             advice |-> "Good collaboration, consider expanding your network"]
     ELSE [level |-> "Low", advice |-> "Excellent community engagement"]

\* draw: the Math.random() value of assessBurnoutRisk
analyzeRisks(data, draw) ==
  LET events == OrEmpty(data.events)
      repos == OrEmpty(data.repositories)
  IN [burnoutRisk |-> assessBurnoutRisk(events, analyzeWeeklyPattern(events), draw),
      skillStagnation |-> assessSkillStagnation(repos),
      collaborationIsolation |-> assessCollaborationIsolation(events)]

-----------------------------------------------------------------------------
(* generateInsights *)

\* The names of the seven Math.random() calls one generateInsights may make
DrawNames == {"innovation", "collaboration", "consistency", "exploration", "leadership",
              "workBurnout", "riskBurnout"}

\* A completion: raised when a section raised, else the insights record
generateInsights(data, now, draws) ==
  LET recommendations == generateRecommendations(data)
      codingStyle == analyzeCodingStyle(data)
  IN IF Raised(recommendations) \/ Raised(codingStyle.commitStyle) THEN TypeError
     ELSE [raised |-> FALSE,
           personalityProfile |-> analyzePersonalityProfile(data, now, draws),
           workPatterns |-> analyzeWorkPatterns(data, draws.workBurnout),
           codingStyle |-> codingStyle,
           collaborationStyle |-> analyzeCollaborationStyle(data),
           recommendations |-> recommendations.value,
           predictions |-> generatePredictions(data),
           riskAnalysis |-> analyzeRisks(data, draws.riskBurnout)]

-----------------------------------------------------------------------------
(* Input records *)

\* The clock of the analysed runs: a Sunday noon
Now == [day |-> 700, hour |-> 12, minute |-> 0]

At(day, hour, minute) == [day |-> day, hour |-> hour, minute |-> minute]

\* A bundle as the engine reads it
Bundle(repositories, events, public_repos, followers) ==
  [login |-> "octocat", repositories |-> repositories, events |-> events,
   public_repos |-> public_repos, followers |-> followers]

\* Repository records of the GitHub API, one per kind of repository
RepoKinds ==
  <<[name |-> Present(<<"W", "e", "b", "-", "A", "p", "p">>), description |-> Present(<<"D", "e", "m", "o", " ", "o", "f", " ", "a", " ", "R", "E", "S", "T", " ", "A", "P", "I">>),
     language |-> "JavaScript", fork |-> FALSE,
     stargazers_count |-> Present(12), forks_count |-> Present(3),
     created_at |-> Present(At(690, 9, 0)), updated_at |-> Present(At(699, 9, 0))],
    [name |-> Present(<<"m", "l", "-", "t", "o", "o", "l">>),
     description |-> Present(<<"l", "e", "a", "r", "n", "i", "n", "g", " ", "e", "x", "p", "e", "r", "i", "m", "e", "n", "t", " ", "w", "i", "t", "h", " ", "T", "e", "s", "t", "i", "n", "g">>),
     language |-> "Python", fork |-> FALSE,
     stargazers_count |-> Present(0), forks_count |-> Present(0),
     created_at |-> Present(At(100, 9, 0)), updated_at |-> Present(At(120, 9, 0))],
    [name |-> Absent, description |-> Absent,
     language |-> NoLanguage, fork |-> TRUE,
     stargazers_count |-> Absent, forks_count |-> Absent,
     created_at |-> Absent, updated_at |-> Absent],
    [name |-> Present(<<"c", "l", "i">>), description |-> Absent,
     language |-> "TypeScript", fork |-> TRUE,
     stargazers_count |-> Present(400), forks_count |-> Absent,
     created_at |-> Absent, updated_at |-> Present(At(650, 9, 0))],
    [name |-> Present(<<"g", "a", "t", "e", "w", "a", "y">>), description |-> Present(<<"d", "o", "c", "k", "e", "r", " ", "m", "i", "c", "r", "o", "s", "e", "r", "v", "i", "c", "e">>),
     language |-> "Go", fork |-> FALSE,
     stargazers_count |-> Present(6), forks_count |-> Present(1),
     created_at |-> Present(At(400, 9, 0)), updated_at |-> Absent]>>

\* copies[k] copies of kind k, kind after kind
Repeat(x, n) == IF n <= 0 THEN <<>> ELSE [i \in 1..n |-> x]

RepoList(copies) == Concat([k \in DOMAIN copies |-> Repeat(RepoKinds[k], copies[k])])

\* An event record of the GitHub API
Event(type, at, org, repo, payload) ==
  [type |-> type, created_at |-> at, org |-> org, repo |-> repo, payload |-> payload]

PushPayload(commits) == Present([commits |-> commits])

\* Runs of events: run k, taken c times, gives the events below, most recent first
EventRun(k, c) ==
  CASE k = 1 ->  \* a push at 10:00 on each of the last 7 days
         Concat([d \in 1..7 |->
                   Repeat(Event("PushEvent", At(Now.day - d, 10, 0), Absent,
                                Present("octocat/web-app"), PushPayload(Present(1))), c)])
    [] k = 2 ->  \* 10 pushes within the last 24 hours, without a commit list
         Concat([j \in 1..(10 * c) |->
                   <<Event("PushEvent", At(Now.day, (10 * c + 1 - j) % 12,
                                         ((10 * c + 1 - j) * 7) % 60), Absent,
                           Present("octocat/ml-tool"), Present([commits |-> Absent]))>>])
    [] k = 3 ->  \* 3 pull requests in an organisation, late on Saturday
         Repeat(Event("PullRequestEvent", At(Now.day - 1, 23, 30), Present("acme"),
                      Present("acme/gateway"), Absent), 3 * c)
    [] k = 4 ->  \* a watch and a review comment without repo, on a weekday afternoon
         Concat([j \in 1..c |->
                   <<Event("WatchEvent", At(Now.day - 3, 14, 0), Absent, Absent, Absent),
                     Event("IssueCommentEvent", At(Now.day - 3, 14, 20), Present("acme"),
                           Absent, Absent)>>])

EventList(copies) == Concat([k \in DOMAIN copies |-> EventRun(k, copies[k])])

\* Bounds of the analysed bundles
MaxRepoCopies == 1

MaxRunCopies == 1

\* The values Math.random() takes in the model: the ends of [0, 1), in thousandths
RandomDraws == {0, 999}

\* Up to MaxRepoCopies of each of the first three kinds, and one portfolio of all kinds
RepoLists ==
  {RepoList(c) : c \in [1..3 -> 0..MaxRepoCopies]} \cup {RepoList([k \in 1..5 |-> 1])}

\* Up to MaxRunCopies of each of the first three runs, and one history of all runs
EventLists ==
  {EventList(c) : c \in [1..3 -> 0..MaxRunCopies]} \cup {EventList([k \in 1..4 |-> 1])}

\* Every pair of lists with the profile counts absent, as the dashboard passes them;
\* the bundle without any array; and the lists of all kinds with the counts present
Bundles ==
  {Bundle(Present(r), Present(e), Absent, Absent) : r \in RepoLists, e \in EventLists}
  \cup {Bundle(Absent, Absent, Absent, Absent),
        Bundle(Absent, Present(EventList([k \in 1..4 |-> 1])), Present(12), Present(40)),
        Bundle(Present(RepoList([k \in 1..5 |-> 1])), Absent, Present(12), Present(40))}

-----------------------------------------------------------------------------
(* Calls of the engine *)

NoInsights == [raised |-> FALSE, pending |-> TRUE]

NoCall == [made |-> FALSE]

NoProbe == [fn |-> "none"]

ZeroDraws == [n \in DrawNames |-> 0]

\* Whether this call reaches the Math.random() of the named calculator: whether the
\* calculator's result depends on the draw
ReachesDraw(data, now, name) ==
  LET events == OrEmpty(data.events)
      repos == OrEmpty(data.repositories)
  IN CASE name = "innovation" ->
            calculateInnovationScore(repos, now, 0) /= calculateInnovationScore(repos, now, 999)
       [] name = "collaboration" ->
            calculateCollaborationScore(events, 0) /= calculateCollaborationScore(events, 999)
       [] name = "consistency" ->
            calculateConsistencyScore(events, 0) /= calculateConsistencyScore(events, 999)
       [] name = "exploration" ->
            calculateExplorationScore(repos, 0) /= calculateExplorationScore(repos, 999)
       [] name = "leadership" ->
            calculateLeadershipScore(repos, events, 0) /= calculateLeadershipScore(repos, events, 999)
       [] OTHER ->
            assessBurnoutRisk(events, analyzeWeeklyPattern(events), 0)
              /= assessBurnoutRisk(events, analyzeWeeklyPattern(events), 999)

\* The draws of one call: a value for each Math.random() it reaches
DrawsOf(data, now) ==
  LET reached == {n \in DrawNames : ReachesDraw(data, now, n)}
  IN {d \in [DrawNames -> RandomDraws] : \A n \in DrawNames \ reached : d[n] = 0}

\* What the dashboard shows of an insights record as text labels
Labels(result) ==
  [type |-> result.personalityProfile.type,
   description |-> result.personalityProfile.description,
   workingStyle |-> result.workPatterns.workingStyle,
   burnoutLevel |-> <<result.workPatterns.burnoutRisk.level, result.riskAnalysis.burnoutRisk.level>>,
   activityTrend |-> result.predictions.activityTrend.trend,
   collaborationTrend |-> result.predictions.collaborationGrowth.trend,
   learningVelocity |-> result.predictions.skillDevelopment.learningVelocity,
   skillDiversification |-> result.predictions.skillDevelopment.skillDiversification,
   commitStyle |-> result.codingStyle.commitStyle.style,
   testingApproach |-> result.codingStyle.testingApproach,
   titles |-> [i \in 1..Len(result.recommendations) |-> result.recommendations[i].title]]

\* The bundles on which the call is repeated: without data, and with up to MaxRunCopies
\* of the first two runs next to each of the first two kinds of repository
RepeatBundles ==
  {Bundle(Absent, Absent, Absent, Absent)}
  \cup {Bundle(Present(RepoList(r)), Present(EventList(e)), Absent, Absent) :
          r \in [1..2 -> 0..1], e \in [1..2 -> 0..MaxRunCopies]}

\* userData after a call: the events array as estimateSessionLength leaves it; no other
\* array of the bundle is the receiver of a writing method
AfterCall(data) ==
  [data EXCEPT !.events = IF IsPresent(@) THEN Present(sessionArrays(Get(@)).argument) ELSE @]

\* window.DevPulse when its script has run: the state fields of the object literal
DevPulseLoaded ==
  [isInitialized |-> FALSE, loadingState |-> FALSE,
   currentUsername |-> <<>>, currentUserData |-> <<>>]

\* The document before any call: the app element hidden, no AI section
PageLoaded ==
  [appShown |-> FALSE, initializeModulesRuns |-> 0, setupApplicationRuns |-> 0,
   aiSections |-> <<>>]

\* The dashboard with no call made
DashboardLoaded ==
  /\ devPulse = DevPulseLoaded
  /\ calls = EmptyBag
  /\ page = PageLoaded

Start(bundles) ==
  /\ userData \in bundles
  /\ clock = Now
  /\ insights = NoInsights
  /\ earlier = NoCall
  /\ probe = NoProbe
  /\ DashboardLoaded

Init == Start(Bundles)

InitRepeat == Start(RepeatBundles)

\* await DevPulseAI.generateInsights(userData), for the first time
GenerateInsights ==
  /\ insights = NoInsights
  /\ \E draws \in DrawsOf(userData, clock) :
       insights' = generateInsights(userData, clock, draws)
  /\ userData' = AfterCall(userData)
  /\ UNCHANGED <<clock, earlier, probe, dashboard>>

\* The same call again, on the same bundle at the same clock value
GenerateInsightsAgain ==
  /\ insights /= NoInsights
  /\ earlier = NoCall
  /\ \E draws \in DrawsOf(userData, clock) :
       insights' = generateInsights(userData, clock, draws)
  /\ earlier' = [made |-> TRUE, userData |-> userData, clock |-> clock, insights |-> insights]
  /\ userData' = AfterCall(userData)
  /\ UNCHANGED <<clock, probe, dashboard>>

Next == GenerateInsights

\* One call of generateInsights on each bundle
Spec == Init /\ [][Next]_vars

NextRepeat == GenerateInsights \/ GenerateInsightsAgain

\* Two calls of generateInsights on the same bundle
SpecRepeat == InitRepeat /\ [][NextRepeat]_vars

-----------------------------------------------------------------------------
(* Properties of generateInsights *)

Computed == insights /= NoInsights /\ ~Raised(insights)

ScoreNames == {"innovation", "collaboration", "consistency", "exploration", "leadership"}

\* C1: each of the five scores of a computed profile lies in [1, 10], whether it is a
\* placeholder or the clamped sum of the sub-terms.
C1_ScoresInRange ==
  Computed =>
    \A m \in ScoreNames :
      /\ insights.personalityProfile.scores[m] >= 1000
      /\ insights.personalityProfile.scores[m] <= 10000

\* C1 witness: a profile whose innovation score is the lower clamp (sub-terms sum to 0)
\* next to a placeholder collaboration score.
C1_Witness ==
  /\ Computed
  /\ Len(OrEmpty(userData.repositories)) > 0
  /\ innovationPoints(OrEmpty(userData.repositories), clock) < 1000
  /\ insights.personalityProfile.scores.innovation = 1000
  /\ ReachesDraw(userData, clock, "collaboration")
  /\ insights.personalityProfile.scores.collaboration > 3000

NoData ==
  /\ OrEmpty(userData.repositories) = <<>>
  /\ OrEmpty(userData.events) = <<>>

\* C2: on a bundle whose repositories and events are empty or absent the call can be made,
\* does not raise, and returns a record with every section and field present.
C2_EmptyInputFullRecord ==
  NoData =>
    /\ insights = NoInsights => ENABLED GenerateInsights
    /\ insights /= NoInsights =>
         /\ ~Raised(insights)
         /\ {"personalityProfile", "workPatterns", "codingStyle", "collaborationStyle",
             "recommendations", "predictions", "riskAnalysis"} \subseteq DOMAIN insights
         /\ {"type", "scores", "description", "strengths", "growthAreas"}
              \subseteq DOMAIN insights.personalityProfile
         /\ ScoreNames \subseteq DOMAIN insights.personalityProfile.scores
         /\ {"peakHours", "workingStyle", "burnoutRisk"} \subseteq DOMAIN insights.workPatterns
         /\ {"level", "advice"} \subseteq DOMAIN insights.workPatterns.burnoutRisk
         /\ {"nextTechnology", "activityTrend", "collaborationGrowth", "skillDevelopment"}
              \subseteq DOMAIN insights.predictions

\* C2 witness: the call has returned for a bundle without repositories and events arrays.
C2_Witness ==
  /\ ~IsPresent(userData.repositories)
  /\ ~IsPresent(userData.events)
  /\ Computed
  /\ insights.workPatterns.workingStyle = "Getting Started"

\* C5: a second call on the same bundle at the same clock value agrees with the first on
\* every label and on the list of recommendation titles, and on every score that is not a
\* placeholder.
C5_RepeatAgrees ==
  (earlier /= NoCall /\ earlier.userData = userData /\ earlier.clock = clock) =>
    /\ Raised(earlier.insights) = Raised(insights)
    /\ ~Raised(insights) =>
         /\ Labels(earlier.insights) = Labels(insights)
         /\ \A m \in ScoreNames :
              ~ReachesDraw(userData, clock, m) =>
                earlier.insights.personalityProfile.scores[m]
                  = insights.personalityProfile.scores[m]

\* C5 witness: two calls on a bundle without data whose placeholder scores differ.
C5_Witness ==
  /\ earlier /= NoCall
  /\ NoData
  /\ Computed
  /\ earlier.insights.personalityProfile.scores.consistency
       /= insights.personalityProfile.scores.consistency
  /\ earlier.insights.personalityProfile.growthAreas /= insights.personalityProfile.growthAreas

\* C6: every confidence of the result lies in [0, 1], and that of nextTechnology is at
\* most 0.9.
C6_ConfidenceInRange ==
  Computed =>
    /\ \A i \in 1..Len(insights.recommendations) :
         insights.recommendations[i].confidence \in 0..1000
    /\ insights.predictions.nextTechnology.confidence \in 0..900
    /\ insights.predictions.activityTrend.confidence \in 0..1000
    /\ insights.predictions.collaborationGrowth.confidence \in 0..1000
    /\ insights.predictions.skillDevelopment.confidence \in 0..1000

\* C6 witness: a portfolio whose uncapped nextTechnology confidence would exceed 0.9.
C6_Witness ==
  /\ Computed
  /\ 500 + UniqueCount(Languages(OrEmpty(userData.repositories))) * 100
         + Len(OrEmpty(userData.repositories)) * 10 > 900
  /\ insights.predictions.nextTechnology.confidence = 900
  /\ Len(insights.recommendations) > 0

-----------------------------------------------------------------------------
(* assessBurnoutRisk called on its own, as analyzeWorkPatterns and         *)
(* analyzeRisks call it: assessBurnoutRisk(events, analyzeWeeklyPattern(events)) *)

MaxBlocks == 2

\* The days a block of events covers, as days before today: today (a Sunday), the five
\* weekdays before it, the whole week before it, or yesterday
BurnoutDayRuns == <<{0}, {2, 3, 4, 5, 6}, {1, 2, 3, 4, 5, 6, 7}, {1}>>

\* A block: perDay pushes at the given hour on each day of a run
BurnoutBlocks ==
  {[run |-> d, hour |-> h, perDay |-> n] : d \in 1..4, h \in {10, 4}, n \in {4, 10}}

BlockLists == UNION {[1..n -> BurnoutBlocks] : n \in 0..MaxBlocks}

PushesAt(daysAgo, hour, n) ==
  Repeat(Event("PushEvent", At(Now.day - daysAgo, hour, 0), Absent,
               Present("octocat/web-app"), PushPayload(Present(1))), n)

\* The events of the blocks as the API lists them, most recent first
BurnoutEvents(blocks) ==
  LET perDay(daysAgo, hour) ==
        Sum([i \in 1..Len(blocks) |->
               IF blocks[i].hour = hour /\ daysAgo \in BurnoutDayRuns[blocks[i].run]
               THEN blocks[i].perDay ELSE 0])
  IN Concat([k \in 1..8 |->
               PushesAt(k - 1, 10, perDay(k - 1, 10)) \o PushesAt(k - 1, 4, perDay(k - 1, 4))])

NoBundle == Bundle(Absent, Absent, Absent, Absent)

\* No bundle is loaded while an operation is called on its own
StartProbe ==
  /\ userData = NoBundle
  /\ clock = Now
  /\ insights = NoInsights
  /\ earlier = NoCall
  /\ probe = NoProbe
  /\ DashboardLoaded

\* this.assessBurnoutRisk(events, weeklyPattern)
AssessBurnoutRisk ==
  /\ probe = NoProbe
  /\ \E blocks \in BlockLists, r \in RandomDraws :
       LET events == BurnoutEvents(blocks)
       IN probe' = [fn |-> "assessBurnoutRisk",
                    events |-> events,
                    result |-> assessBurnoutRisk(events, analyzeWeeklyPattern(events), r)]
  /\ UNCHANGED <<userData, clock, insights, earlier, dashboard>>

NextBurnout == AssessBurnoutRisk

\* One call of assessBurnoutRisk on each event list
SpecBurnout == StartProbe /\ [][NextBurnout]_vars

BurnoutAssessed == probe.fn = "assessBurnoutRisk"

\* The list is exactly 10 PushEvents, each dated within the 24 hours before the clock
TenPushesInLastDay ==
  /\ BurnoutAssessed
  /\ Len(probe.events) = 10
  /\ \A i \in 1..Len(probe.events) :
       /\ probe.events[i].type = "PushEvent"
       /\ Minutes(clock) - Minutes(probe.events[i].created_at) \in 0..(24 * 60)

BurnoutLevels == {"Low", "Low-Medium", "Medium", "High"}

\* The level a score (in thousandths) maps to on the ladder of the claim
LevelOfScore(score) ==
  IF score >= 7000 THEN "High"
  ELSE IF score >= 4000 THEN "Medium"
  ELSE IF score >= 2000 THEN "Low-Medium"
  ELSE "Low"

\* The advice of each level on the scored branch
AdviceOfLevel(level) ==
  CASE level = "High" -> "Take immediate steps to prevent burnout"
    [] level = "Medium" -> "Monitor work intensity and maintain balance"
    [] level = "Low-Medium" -> "Good work pattern with minor areas to watch"
    [] OTHER -> "Healthy work pattern detected"

\* The four contributions of the probed list: intensity, weekend, late night, clustering
SignalPoints ==
  <<burnoutIntensityPoints(probe.events),
    burnoutWeekendPoints(analyzeWeeklyPattern(probe.events)),
    burnoutLateNightPoints(probe.events),
    burnoutClusteringPoints(probe.events)>>

\* C3 as stated: for exactly 10 PushEvents of the last 24 hours the level is Low-Medium,
\* Medium or High, never Low.
C3_AtLeastLowMedium ==
  TenPushesInLastDay => probe.result.level \in {"Low-Medium", "Medium", "High"}

\* C3 as amended: for exactly 10 PushEvents of the last 24 hours assessBurnoutRisk takes
\* its insufficient-data branch (fewer than 20 events): the level is Low, the advice is
\* the one of that branch and the score is a placeholder in [1, 4).
C3_TenPushesInsufficient ==
  TenPushesInLastDay =>
    /\ probe.result.level = "Low"
    /\ probe.result.advice = "Build consistent coding habits gradually"
    /\ probe.result.score >= 1000
    /\ probe.result.score < 4000

\* C3 witness: 10 pushes of the last 24 hours whose signals alone would add up to 7
\* points (weekend, late-night and clustered work), assessed as Low.
C3_Witness ==
  /\ TenPushesInLastDay
  /\ Sum(SignalPoints) >= 7
  /\ probe.result.level = "Low"

\* C9 as stated: for any event list the score is the sum of the four contributions, each
\* between 0 and 3, and the level is the one the score maps to.
C9_ScoreIsSumForAnyList ==
  BurnoutAssessed =>
    /\ \A i \in 1..4 : SignalPoints[i] \in 0..3
    /\ probe.result.score = 1000 * Sum(SignalPoints)
    /\ probe.result.level = LevelOfScore(probe.result.score)

\* C9 as amended: for a list of 20 or more events the score is the sum of the four
\* contributions, each between 0 and 3, and the level is the one the score maps to; for
\* fewer than 20 events the score is a placeholder in [1, 4) and the level is Low
\* whatever the score.
C9_ScoreIsSumFromTwenty ==
  BurnoutAssessed =>
    IF Len(probe.events) >= 20
    THEN /\ \A i \in 1..4 : SignalPoints[i] \in 0..3
         /\ probe.result.score = 1000 * Sum(SignalPoints)
         /\ probe.result.level = LevelOfScore(probe.result.score)
    ELSE /\ probe.result.score >= 1000
         /\ probe.result.score < 4000
         /\ probe.result.level = "Low"

\* C9 witness: a scored list to which every signal contributes and whose sum is on the
\* Medium rung of the ladder.
C9_Witness ==
  /\ BurnoutAssessed
  /\ Len(probe.events) >= 20
  /\ \A i \in 1..4 : SignalPoints[i] > 0
  /\ probe.result.score \in 4000..6000
  /\ probe.result.level = "Medium"

\* C10 as stated: for any event list the level is one of the four, comes with the advice
\* fixed for that level, and with a recommendation list of at most 2 entries.
C10_FixedAdviceForAnyList ==
  BurnoutAssessed =>
    /\ probe.result.level \in BurnoutLevels
    /\ probe.result.advice = AdviceOfLevel(probe.result.level)
    /\ IsPresent(probe.result.recommendations)
    /\ Len(Get(probe.result.recommendations)) <= 2

\* C10 as amended: the level is always one of the four; for 20 or more events it comes
\* with the advice fixed for that level and a list of exactly 2 recommendations; for
\* fewer than 20 events the level is Low with the advice of the insufficient-data
\* branch and without a recommendation list.
C10_FixedAdviceFromTwenty ==
  BurnoutAssessed =>
    /\ probe.result.level \in BurnoutLevels
    /\ IF Len(probe.events) >= 20
       THEN /\ probe.result.advice = AdviceOfLevel(probe.result.level)
            /\ IsPresent(probe.result.recommendations)
            /\ Len(Get(probe.result.recommendations)) = 2
       ELSE /\ probe.result.level = "Low"
            /\ probe.result.advice = "Build consistent coding habits gradually"
            /\ probe.result.recommendations = Absent

\* C10 witness: a non-empty list of fewer than 20 events, assessed as Low with an advice
\* that is not the one the scored branch gives for Low, and without recommendations.
C10_Witness ==
  /\ BurnoutAssessed
  /\ Len(probe.events) \in 1..19
  /\ probe.result.level = "Low"
  /\ probe.result.advice /= AdviceOfLevel("Low")
  /\ probe.result.recommendations = Absent

-----------------------------------------------------------------------------
(* generateRecommendations called on its own *)

MaxLanguageCopies == 1

RecommendLanguages == <<"JavaScript", "TypeScript", "Python", "Java", "Go">>

\* A repository written in the given language
LanguageRepo(language) == [RepoKinds[2] EXCEPT !.language = language]

\* copies[k] repositories in language k
LanguageRepos(copies) ==
  Concat([k \in 1..Len(RecommendLanguages) |->
            Repeat(LanguageRepo(RecommendLanguages[k]), copies[k])])

\* Bundles on either side of every threshold the four generators compare with
RecommendBundles ==
  {Bundle(Present(LanguageRepos(copies)), events, public_repos, followers) :
     copies \in [1..Len(RecommendLanguages) -> 0..MaxLanguageCopies],
     events \in {Absent} \cup {Present(PushesAt(1, 10, n)) : n \in {0, 10, 21, 31}},
     public_repos \in {Absent} \cup {Present(n) : n \in {4, 6, 12, 16, 21}},
     followers \in {Absent} \cup {Present(n) : n \in {31, 51, 101}}}

\* await this.generateRecommendations(userData)
GenerateRecommendations ==
  /\ probe = NoProbe
  /\ \E data \in RecommendBundles :
       probe' = [fn |-> "generateRecommendations",
                 userData |-> data,
                 result |-> generateRecommendations(data)]
  /\ UNCHANGED <<userData, clock, insights, earlier, dashboard>>

NextRecommend == GenerateRecommendations

\* One call of generateRecommendations on each bundle
SpecRecommend == StartProbe /\ [][NextRecommend]_vars

Recommended == probe.fn = "generateRecommendations"

\* Every record of the list has the given type
AllOfType(list, type) == \A i \in 1..Len(list) : list[i].type = type

\* The four lists of the probed bundle: technology, learning, productivity, career
FourLists ==
  LET summary == analyzeBasicPatterns(probe.userData)
  IN <<generateTechRecommendations(summary), generateLearningRecommendations(summary),
       generateProductivityRecommendations(summary), generateCareerRecommendations(summary)>>

\* C4: generateRecommendations returns at most 8 records: the technology list (at most 3
\* records), the learning list (at most 2), the productivity list (at most 2) and the
\* career list (at most 2), concatenated in this order and cut to the first 8.
C4_AtMostEightInOrder ==
  Recommended =>
    LET whole == FourLists[1] \o FourLists[2] \o FourLists[3] \o FourLists[4]
    IN /\ ~Raised(probe.result)
       /\ Len(probe.result.value) <= 8
       /\ Len(FourLists[1]) <= 3 /\ AllOfType(FourLists[1], "Technology")
       /\ Len(FourLists[2]) <= 2 /\ AllOfType(FourLists[2], "Learning")
       /\ Len(FourLists[3]) <= 2 /\ AllOfType(FourLists[3], "Productivity")
       /\ Len(FourLists[4]) <= 2 /\ AllOfType(FourLists[4], "Career")
       /\ Len(probe.result.value) = Min(8, Len(whole))
       /\ \A i \in 1..Len(probe.result.value) : probe.result.value[i] = whole[i]

\* C4 witness: the four lists are full (3 + 2 + 2 + 2 records) and the result is their
\* first 8 records, the second career record being cut.
C4_Witness ==
  /\ Recommended
  /\ <<Len(FourLists[1]), Len(FourLists[2]), Len(FourLists[3]), Len(FourLists[4])>>
       = <<3, 2, 2, 2>>
  /\ Len(probe.result.value) = 8
  /\ probe.result.value[8] = FourLists[4][1]

-----------------------------------------------------------------------------
(* determinePersonalityType called on its own *)

\* Scores (thousandths) on either side of the thresholds 7 and 8, and the two ends
ScoreGrid == {1000, 7000, 7001, 8000, 8001, 10000}

MetricsGrid ==
  [innovation : ScoreGrid, collaboration : ScoreGrid, consistency : ScoreGrid,
   exploration : ScoreGrid, leadership : ScoreGrid]

\* this.determinePersonalityType(metrics)
DeterminePersonalityType ==
  /\ probe = NoProbe
  /\ \E metrics \in MetricsGrid :
       probe' = [fn |-> "determinePersonalityType",
                 metrics |-> metrics,
                 result |-> determinePersonalityType(metrics)]
  /\ UNCHANGED <<userData, clock, insights, earlier, dashboard>>

NextPersonality == DeterminePersonalityType

\* One call of determinePersonalityType on each combination of scores
SpecPersonality == StartProbe /\ [][NextPersonality]_vars

TypeDetermined == probe.fn = "determinePersonalityType"

\* C7: the first matching rule decides the type: Innovator iff innovation > 7 and
\* exploration > 7; otherwise Team Player iff collaboration > 7 and consistency > 7;
\* otherwise Reliable Contributor iff consistency > 8; otherwise Technology Explorer iff
\* exploration > 8; otherwise Balanced Developer.  The leadership score has no influence.
C7_FirstMatchingRule ==
  TypeDetermined =>
    LET m == probe.metrics
        type == probe.result
        innovator == m.innovation > 7000 /\ m.exploration > 7000
        teamPlayer == m.collaboration > 7000 /\ m.consistency > 7000
        reliable == m.consistency > 8000
        explorer == m.exploration > 8000
    IN /\ (type = "Innovator") <=> innovator
       /\ (type = "Team Player") <=> (~innovator /\ teamPlayer)
       /\ (type = "Reliable Contributor") <=> (~innovator /\ ~teamPlayer /\ reliable)
       /\ (type = "Technology Explorer") <=>
            (~innovator /\ ~teamPlayer /\ ~reliable /\ explorer)
       /\ (type = "Balanced Developer") <=>
            (~innovator /\ ~teamPlayer /\ ~reliable /\ ~explorer)
       /\ \A leadership \in ScoreGrid :
            determinePersonalityType([m EXCEPT !.leadership = leadership]) = type

\* C7 witness: the Team Player and the Reliable Contributor rules both match, next to the
\* highest leadership score, and the earlier rule decides.
C7_Witness ==
  /\ TypeDetermined
  /\ probe.metrics.collaboration > 7000
  /\ probe.metrics.consistency > 8000
  /\ probe.metrics.exploration > 8000
  /\ probe.metrics.innovation <= 7000
  /\ probe.metrics.leadership = 10000
  /\ probe.result = "Team Player"

-----------------------------------------------------------------------------
(* determineWorkingStyle called on its own, as analyzeWorkPatterns calls it: on the *)
(* hourly and the weekly distribution of the same events                            *)

MaxCellCopies == 2

\* Cells of the week before today, as <<days ago, hour>>, most recent first: Saturday
\* evening, Friday afternoon, Thursday night, Wednesday evening, Tuesday afternoon,
\* Monday morning, Sunday afternoon
WeekCells == <<<<1, 20>>, <<2, 14>>, <<3, 2>>, <<4, 20>>, <<5, 14>>, <<6, 8>>, <<7, 14>>>>

\* 2 * copies[k] events in cell k
CellEvents(copies) ==
  Concat([k \in 1..Len(WeekCells) |->
            PushesAt(WeekCells[k][1], WeekCells[k][2], 2 * copies[k])])

\* this.determineWorkingStyle(hourlyDist, weeklyDist)
DetermineWorkingStyle ==
  /\ probe = NoProbe
  /\ \E copies \in [1..Len(WeekCells) -> 0..MaxCellCopies] :
       LET events == CellEvents(copies)
           hourlyDist == analyzeTimeDistribution(events)
           weeklyDist == analyzeWeeklyPattern(events)
       IN probe' = [fn |-> "determineWorkingStyle",
                    hourlyDist |-> hourlyDist,
                    weeklyDist |-> weeklyDist,
                    result |-> determineWorkingStyle(hourlyDist, weeklyDist)]
  /\ UNCHANGED <<userData, clock, insights, earlier, dashboard>>

NextWorkingStyle == DetermineWorkingStyle

\* One call of determineWorkingStyle on the distributions of each event list
SpecWorkingStyle == StartProbe /\ [][NextWorkingStyle]_vars

StyleDetermined == probe.fn = "determineWorkingStyle"

\* Activity on some day, none of it on Sunday or Saturday
WeekdaysOnly ==
  /\ StyleDetermined
  /\ Sum(probe.hourlyDist) > 0
  /\ probe.weeklyDist[1] = 0
  /\ probe.weeklyDist[7] = 0

\* C8: for distributions with activity but none on Saturday and Sunday the working style
\* is never a Weekend variant.
C8_NoWeekendVariant ==
  WeekdaysOnly => probe.result \notin {"Weekend Evening Warrior", "Weekend Day Hacker"}

\* C8 witness: weekday-only activity, more than 40% of it on Friday, with neither the
\* night nor the morning above 40%, so that the weekend rule is the one that is tried.
C8_Witness ==
  /\ WeekdaysOnly
  /\ probe.weeklyDist[6] * 10 > 4 * Sum(probe.weeklyDist)
  /\ probe.result \in {"After-Hours Developer", "Evening Sprint Coder", "Afternoon Focused",
                       "Midday Momentum", "Steady All-Day Contributor",
                       "Flexible Schedule Coder"}

-----------------------------------------------------------------------------
(* identifyPeakHours called on its own, as analyzeWorkPatterns calls it: on the *)
(* hourly distribution of the events                                            *)

MaxHourCount == 5

\* The hours of the day on which the events fall
PeakCells == <<2, 8, 14, 20>>

\* counts[k] events at hour k of yesterday
HourEvents(counts) ==
  Concat([k \in 1..Len(PeakCells) |-> PushesAt(1, PeakCells[k], counts[k])])

\* this.identifyPeakHours(hourlyDistribution)
IdentifyPeakHours ==
  /\ probe = NoProbe
  /\ \E counts \in [1..Len(PeakCells) -> 0..MaxHourCount] :
       LET hourlyDistribution == analyzeTimeDistribution(HourEvents(counts))
       IN probe' = [fn |-> "identifyPeakHours",
                    hourlyDistribution |-> hourlyDistribution,
                    result |-> identifyPeakHours(hourlyDistribution)]
  /\ UNCHANGED <<userData, clock, insights, earlier, dashboard>>

\* One call of identifyPeakHours on the distribution of each event list
SpecPeakHours == StartProbe /\ [][IdentifyPeakHours]_vars

PeakHoursIdentified == probe.fn = "identifyPeakHours"

\* Hour h holds at least 80% of the count of every hour, that is of the maximum
AtLeastEightyPercent(h) ==
  \A g \in 0..23 :
    probe.hourlyDistribution[h + 1] * 10 >= 8 * probe.hourlyDistribution[g + 1]

\* Hour h holds the maximum
HoldsMaximum(h) ==
  \A g \in 0..23 : probe.hourlyDistribution[h + 1] >= probe.hourlyDistribution[g + 1]

\* C11: identifyPeakHours returns exactly the hours of 0..23 whose count is at least 80%
\* of the maximum count, in ascending order, so every hour holding the maximum is in it.
C11_PeakHoursExact ==
  PeakHoursIdentified =>
    LET peaks == probe.result
    IN /\ \A h \in 0..23 :
            (\E i \in 1..Len(peaks) : peaks[i] = h) <=> AtLeastEightyPercent(h)
       /\ \A i \in 1..Len(peaks), j \in 1..Len(peaks) : i < j => peaks[i] < peaks[j]
       /\ \A h \in 0..23 : HoldsMaximum(h) => \E i \in 1..Len(peaks) : peaks[i] = h

\* C11 witness: an hour at exactly 80% of the maximum is returned next to the hour of the
\* maximum, and an hour with events below 80% is left out.
C11_Witness ==
  /\ PeakHoursIdentified
  /\ probe.hourlyDistribution[15] = 5
  /\ probe.hourlyDistribution[9] = 4
  /\ probe.hourlyDistribution[3] = 3
  /\ probe.hourlyDistribution[21] = 0
  /\ probe.result = <<8, 14>>

-----------------------------------------------------------------------------
(* identifyStrengths and identifyGrowthAreas called on their own, as        *)
(* analyzePersonalityProfile calls them: on the same metrics                *)

\* Scores (thousandths) on either side of the thresholds 5 and 7
StrengthGrid == {4999, 5000, 7000, 7001}

\* this.identifyStrengths(metrics), this.identifyGrowthAreas(metrics)
IdentifyStrengthsAndGrowthAreas ==
  /\ probe = NoProbe
  /\ \E metrics \in [innovation : StrengthGrid, collaboration : StrengthGrid,
                     consistency : StrengthGrid, exploration : StrengthGrid,
                     leadership : StrengthGrid] :
       probe' = [fn |-> "identifyStrengths",
                 metrics |-> metrics,
                 strengths |-> identifyStrengths(metrics),
                 growthAreas |-> identifyGrowthAreas(metrics)]
  /\ UNCHANGED <<userData, clock, insights, earlier, dashboard>>

\* One call of each on each combination of scores
SpecStrengths == StartProbe /\ [][IdentifyStrengthsAndGrowthAreas]_vars

StrengthsIdentified == probe.fn = "identifyStrengths"

MetricOrder == <<"innovation", "collaboration", "consistency", "exploration", "leadership">>

StrengthLabel(metric) ==
  CASE metric = "innovation" -> "Innovation & Creativity"
    [] metric = "collaboration" -> "Team Collaboration"
    [] metric = "consistency" -> "Reliable Delivery"
    [] metric = "exploration" -> "Technology Adaptability"
    [] OTHER -> "Technical Leadership"

GrowthLabel(metric) ==
  CASE metric = "innovation" -> "Experiment with new technologies"
    [] metric = "collaboration" -> "Increase community involvement"
    [] metric = "consistency" -> "Develop regular coding habits"
    [] metric = "exploration" -> "Try diverse programming languages"
    [] OTHER -> "Take ownership of projects"

\* C12: the strengths are exactly the strength labels of the metrics above 7 and the
\* growth areas exactly the growth labels of the metrics below 5, in the order innovation,
\* collaboration, consistency, exploration, leadership; when no metric qualifies the
\* fixed fallback list is returned, so neither list is empty.
C12_StrengthsAndGrowthAreas ==
  StrengthsIdentified =>
    LET strong == SelectSeq(MetricOrder, LAMBDA n : probe.metrics[n] > 7000)
        weak == SelectSeq(MetricOrder, LAMBDA n : probe.metrics[n] < 5000)
    IN /\ probe.strengths =
            IF strong = <<>> THEN <<"Dedicated Development", "Problem Solving">>
            ELSE [i \in 1..Len(strong) |-> StrengthLabel(strong[i])]
       /\ probe.growthAreas =
            IF weak = <<>> THEN <<"Continue current excellent practices">>
            ELSE [i \in 1..Len(weak) |-> GrowthLabel(weak[i])]
       /\ Len(probe.strengths) > 0
       /\ Len(probe.growthAreas) > 0

\* C12 witness: scores of exactly 7 and exactly 5 qualify for neither list; two metrics
\* above 7 give their two labels in order and a metric below 5 gives its label.
C12_Witness ==
  /\ StrengthsIdentified
  /\ probe.metrics = [innovation |-> 7001, collaboration |-> 7000, consistency |-> 5000,
                      exploration |-> 4999, leadership |-> 7001]
  /\ probe.strengths = <<"Innovation & Creativity", "Technical Leadership">>
  /\ probe.growthAreas = <<"Try diverse programming languages">>

-----------------------------------------------------------------------------
(* calculateExplorationScore called on its own *)

\* Repositories in up to MaxLanguageCopies copies per language, followed by 0, 1, 9 or 10
\* JavaScript repositories and by 0 or 1 repository without a language
ExplorationRepoLists ==
  {LanguageRepos(copies) \o Repeat(LanguageRepo("JavaScript"), n)
     \o Repeat(LanguageRepo(NoLanguage), k) :
     copies \in [1..Len(RecommendLanguages) -> 0..MaxLanguageCopies],
     n \in {0, 1, 9, 10}, k \in {0, 1}}

\* this.calculateExplorationScore(repos)
CalculateExplorationScore ==
  /\ probe = NoProbe
  /\ \E repos \in ExplorationRepoLists, r \in RandomDraws :
       probe' = [fn |-> "calculateExplorationScore",
                 repos |-> repos,
                 result |-> calculateExplorationScore(repos, r)]
  /\ UNCHANGED <<userData, clock, insights, earlier, dashboard>>

\* One call of calculateExplorationScore on each list of repositories
SpecExploration == StartProbe /\ [][CalculateExplorationScore]_vars

ExplorationScored == probe.fn = "calculateExplorationScore" /\ Len(probe.repos) > 0

\* The distinct non-null languages of the probed repositories
DistinctLanguages ==
  {probe.repos[i].language : i \in 1..Len(probe.repos)} \ {NoLanguage}

\* C13: the language-diversity term is 0.5 per distinct non-null language, capped at 3,
\* however many repositories share a language: repositories that are all in JavaScript
\* contribute 0.5 and score the same as the first of them alone.
C13_LanguageTermByDistinctLanguages ==
  ExplorationScored =>
    /\ explorationLanguageTerm(probe.repos) = Min(3000, 500 * Cardinality(DistinctLanguages))
    /\ (\A i \in 1..Len(probe.repos) : probe.repos[i].language = "JavaScript") =>
         /\ explorationLanguageTerm(probe.repos) = 500
         /\ probe.result = calculateExplorationScore(<<probe.repos[1]>>, 0)

\* C13 witness: ten non-fork repositories, all in JavaScript, contribute 0.5.
C13_Witness ==
  /\ ExplorationScored
  /\ Len(probe.repos) = 10
  /\ \A i \in 1..10 : probe.repos[i].language = "JavaScript" /\ ~probe.repos[i].fork
  /\ explorationLanguageTerm(probe.repos) = 500
  /\ probe.result = calculateExplorationScore(<<LanguageRepo("JavaScript")>>, 0)

-----------------------------------------------------------------------------
(* Properties of the recommendation rules *)

\* The languages analyzeBasicPatterns reads from the probed bundle
RecommendedLanguages == analyzeBasicPatterns(probe.userData).languages

\* The returned list holds the Technology record titled 'Upgrade to TypeScript'
UpgradeToTypeScriptReturned ==
  \E i \in 1..Len(probe.result.value) :
    /\ probe.result.value[i].type = "Technology"
    /\ probe.result.value[i].title = "Upgrade to TypeScript"

\* C14: when the languages include JavaScript and not TypeScript the returned list holds
\* the Technology recommendation 'Upgrade to TypeScript', whatever else the rules emit;
\* when the languages include TypeScript no record of that title is returned.
C14_UpgradeToTypeScript ==
  Recommended =>
    /\ (Has(RecommendedLanguages, "JavaScript") /\ ~Has(RecommendedLanguages, "TypeScript"))
         => UpgradeToTypeScriptReturned
    /\ Has(RecommendedLanguages, "TypeScript") =>
         \A i \in 1..Len(probe.result.value) :
           probe.result.value[i].title /= "Upgrade to TypeScript"

\* C14 witness: JavaScript without TypeScript on a bundle whose rules emit more than the
\* caps let through (9 records in the four lists); the record is returned first.
C14_Witness ==
  /\ Recommended
  /\ Has(RecommendedLanguages, "JavaScript")
  /\ Has(RecommendedLanguages, "Python")
  /\ Has(RecommendedLanguages, "Java")
  /\ ~Has(RecommendedLanguages, "TypeScript")
  /\ Len(FourLists[1] \o FourLists[2] \o FourLists[3] \o FourLists[4]) = 9
  /\ probe.result.value[1].title = "Upgrade to TypeScript"

-----------------------------------------------------------------------------
(* predictNextTechnology called on its own *)

\* this.predictNextTechnology(repos)
PredictNextTechnology ==
  /\ probe = NoProbe
  /\ \E repos \in ExplorationRepoLists :
       probe' = [fn |-> "predictNextTechnology",
                 repos |-> repos,
                 result |-> predictNextTechnology(repos)]
  /\ UNCHANGED <<userData, clock, insights, earlier, dashboard>>

\* One call of predictNextTechnology on each list of repositories
SpecNextTechnology == StartProbe /\ [][PredictNextTechnology]_vars

NextTechnologyPredicted == probe.fn = "predictNextTechnology"

\* Every technology the progression map or the trending list names
KnownTechnologies ==
  {trendingTech[i] : i \in 1..Len(trendingTech)}
  \cup UNION {{progressionMap[l].primary[i] : i \in 1..4}
              \cup {progressionMap[l].advanced[i] : i \in 1..4} : l \in DOMAIN progressionMap}

\* C15: primary is the first of the deduplicated candidates, or 'React' when there is
\* none; alternatives are the next at most 3 candidates, pairwise distinct and different
\* from primary; no candidate is a language the user already uses.
C15_PrimaryAndAlternatives ==
  NextTechnologyPredicted =>
    LET candidates == nextTechnologyCandidates(probe.repos)
        alternatives == probe.result.alternatives
    IN /\ probe.result.primary = IF candidates = <<>> THEN "React" ELSE candidates[1]
       /\ Len(alternatives) = Max(0, Min(3, Len(candidates) - 1))
       /\ \A i \in 1..Len(alternatives) :
            /\ alternatives[i] = candidates[i + 1]
            /\ alternatives[i] /= probe.result.primary
            /\ \A j \in 1..Len(alternatives) : i /= j => alternatives[i] /= alternatives[j]
       /\ \A i \in 1..Len(candidates) :
            /\ candidates[i] \in KnownTechnologies
            /\ \A k \in 1..Len(probe.repos) : probe.repos[k].language /= candidates[i]

\* C15 witness: JavaScript and TypeScript both suggest React, and TypeScript, which the
\* JavaScript progression names first, is already used: React is primary once and three
\* distinct alternatives follow.
C15_Witness ==
  /\ NextTechnologyPredicted
  /\ \E k \in 1..Len(probe.repos) : probe.repos[k].language = "TypeScript"
  /\ probe.repos[1].language = "JavaScript"
  /\ Len(nextTechnologySuggestions(probe.repos))
       > Len(nextTechnologyCandidates(probe.repos))
  /\ probe.result.primary = "React"
  /\ Len(probe.result.alternatives) = 3

-----------------------------------------------------------------------------
(* predictActivityTrend called on its own *)

MaxTrendRun == 12

\* Pull requests of today followed by pushes of yesterday, most recent first
TrendEvents(pulls, pushes) ==
  Repeat(Event("PullRequestEvent", At(Now.day, 9, 0), Absent,
               Present("octocat/web-app"), Absent), pulls)
  \o PushesAt(1, 10, pushes)

\* this.predictActivityTrend(events)
PredictActivityTrend ==
  /\ probe = NoProbe
  /\ \E pulls \in 0..MaxTrendRun, pushes \in 0..MaxTrendRun :
       LET events == TrendEvents(pulls, pushes)
       IN probe' = [fn |-> "predictActivityTrend",
                    events |-> events,
                    result |-> predictActivityTrend(events)]
  /\ UNCHANGED <<userData, clock, insights, earlier, dashboard>>

\* One call of predictActivityTrend on each event list
SpecActivityTrend == StartProbe /\ [][PredictActivityTrend]_vars

ActivityTrendPredicted == probe.fn = "predictActivityTrend"

\* The label of three chunk sizes: the mean of recent / max(middle, 1) and
\* middle / max(older, 1) against 1.3, 1.1, 0.9 and 0.7
TrendOfSizes(recent, middle, older) ==
  LET m == Max(middle, 1)
      o == Max(older, 1)
      \* mean > k / 10  iff  10 * (recent * o + middle * m) > 2 * k * m * o
      above(k) == 10 * (recent * o + middle * m) > 2 * k * m * o
  IN IF above(13) THEN "Rapidly Increasing"
     ELSE IF above(11) THEN "Steadily Growing"
     ELSE IF above(9) THEN "Stable & Consistent"
     ELSE IF above(7) THEN "Slightly Decreasing"
     ELSE "Needs Attention"

\* C16: from 10 events on the list is split into three consecutive chunks that cover it
\* without overlap, and the trend is the one of the five labels that the pairwise
\* comparison of the chunk sizes gives; below 10 events the trend is 'Building Momentum'
\* with confidence 0.6.
C16_ThreeChunksFiveLabels ==
  ActivityTrendPredicted =>
    LET chunks == activityChunks(probe.events)
    IN IF Len(probe.events) >= 10
       THEN /\ chunks[1] \o chunks[2] \o chunks[3] = probe.events
            /\ probe.result.trend \in {"Rapidly Increasing", "Steadily Growing",
                                       "Stable & Consistent", "Slightly Decreasing",
                                       "Needs Attention"}
            /\ probe.result.trend = TrendOfSizes(Len(chunks[1]), Len(chunks[2]), Len(chunks[3]))
       ELSE /\ probe.result.trend = "Building Momentum"
            /\ probe.result.confidence = 600

\* C16 witness: 13 events split into chunks of 4, 4 and 5, whose mean ratio is exactly
\* 0.9: 'Slightly Decreasing'.
C16_Witness ==
  /\ ActivityTrendPredicted
  /\ Len(probe.events) = 13
  /\ <<Len(activityChunks(probe.events)[1]), Len(activityChunks(probe.events)[2]),
       Len(activityChunks(probe.events)[3])>> = <<4, 4, 5>>
  /\ probe.result.trend = "Slightly Decreasing"

\* The trend label of a list of n >= 10 events
TrendOfLength(n) ==
  IF n % 3 = 0 \/ n >= 15 THEN "Stable & Consistent" ELSE "Slightly Decreasing"

\* C27: for 10 or more events the trend label is a function of the number of events
\* alone, whatever their types and timestamps, and is 'Stable & Consistent' or 'Slightly
\* Decreasing': the three chunk sizes differ by at most one.
C27_TrendOfLengthAlone ==
  (ActivityTrendPredicted /\ Len(probe.events) >= 10) =>
    LET chunks == activityChunks(probe.events)
        sizes == {Len(chunks[k]) : k \in 1..3}
    IN /\ \A a \in sizes, b \in sizes : a - b <= 1
       /\ probe.result.trend = TrendOfLength(Len(probe.events))
       /\ probe.result.trend \in {"Stable & Consistent", "Slightly Decreasing"}

\* C27 witness: 14 events, pull requests of today and pushes of yesterday mixed, in chunks
\* of 4, 5 and 5: 'Slightly Decreasing', as for every list of 14 events.
C27_Witness ==
  /\ ActivityTrendPredicted
  /\ Len(probe.events) = 14
  /\ \E i, j \in DOMAIN probe.events :
       /\ probe.events[i].type = "PullRequestEvent"
       /\ probe.events[j].type = "PushEvent"
       /\ probe.events[i].created_at /= probe.events[j].created_at
  /\ probe.result.trend = "Slightly Decreasing"

-----------------------------------------------------------------------------
(* The score calculators called on their own *)

\* metrics.<metric> = this.calculate<Metric>Score(...), with the draw r of its Math.random()
ScoreOf(metric, repos, events, now, r) ==
  CASE metric = "innovation" -> calculateInnovationScore(repos, now, r)
    [] metric = "collaboration" -> calculateCollaborationScore(events, r)
    [] metric = "consistency" -> calculateConsistencyScore(events, r)
    [] metric = "exploration" -> calculateExplorationScore(repos, r)
    [] metric = "leadership" -> calculateLeadershipScore(repos, events, r)

CalculateScore ==
  /\ probe = NoProbe
  /\ \E metric \in ScoreNames, repos \in RepoLists, events \in EventLists, r \in RandomDraws :
       probe' = [fn |-> "calculateScore",
                 metric |-> metric,
                 repos |-> repos,
                 events |-> events,
                 draw |-> r,
                 result |-> ScoreOf(metric, repos, events, clock, r)]
  /\ UNCHANGED <<userData, clock, insights, earlier, dashboard>>

\* One call of one score calculator on each pair of lists
SpecScores == StartProbe /\ [][CalculateScore]_vars

ScoreCalculated == probe.fn = "calculateScore"

DistinctDays(events) == Cardinality({ToDateString(events[i].created_at) : i \in 1..Len(events)})

\* The sub-range of the placeholder of the calculator whose input is below its minimum
\* sample; the empty set when the input is not below it
PlaceholderRange(metric, repos, events) ==
  CASE metric \in {"innovation", "exploration"} ->
         IF Len(repos) = 0 THEN 4000..7000 ELSE {}
    [] metric = "collaboration" ->
         IF Len(events) = 0 THEN 3000..6000 ELSE {}
    [] metric = "consistency" ->
         IF Len(events) < 5 THEN 3000..7000
         ELSE IF DistinctDays(events) < 7 THEN 4000..7000 ELSE {}
    [] metric = "leadership" ->
         IF Len(repos) = 0 /\ Len(events) = 0 THEN 2000..5000 ELSE {}

\* The score follows the draw: another draw gives another score
FollowsDraw ==
  \E r \in RandomDraws :
    ScoreOf(probe.metric, probe.repos, probe.events, clock, r) /= probe.result

\* C17: a calculator's score follows its random draw exactly when its input is below its
\* minimum sample, and then lies in the calculator's sub-range; otherwise the score is
\* the same for every draw.
C17_PlaceholderExactlyBelowMinimum ==
  ScoreCalculated =>
    LET range == PlaceholderRange(probe.metric, probe.repos, probe.events)
    IN /\ FollowsDraw <=> range /= {}
       /\ range /= {} => probe.result \in range

\* C17 witness: the consistency score of 10 events of one day with the highest draw, a
\* placeholder just below 7.
C17_Witness ==
  /\ ScoreCalculated
  /\ probe.metric = "consistency"
  /\ Len(probe.events) >= 5
  /\ DistinctDays(probe.events) < 7
  /\ probe.draw = 999
  /\ probe.result = 6997

-----------------------------------------------------------------------------
(* The arrays passed to generateInsights *)

\* Two events of one day that the array holds later one first: a day array that
\* estimateSessionLength's sort has to reorder
HoldsUnsortedDay(events) ==
  \E i, j \in 1..Len(events) :
    /\ i < j
    /\ ToDateString(events[i].created_at) = ToDateString(events[j].created_at)
    /\ Minutes(events[i].created_at) > Minutes(events[j].created_at)

-----------------------------------------------------------------------------
(* Records with absent fields *)

\* The events with a commit list of one commit on every push that has none
WithOneCommit(events) ==
  [i \in 1..Len(events) |->
     IF /\ events[i].type = "PushEvent"
        /\ \/ ~IsPresent(events[i].payload)
           \/ ~IsPresent(Get(events[i].payload).commits)
     THEN [events[i] EXCEPT !.payload = PushPayload(Present(1))]
     ELSE events[i]]

\* The repositories with the empty string for every absent name and description
WithEmptyStrings(repos) ==
  [i \in 1..Len(repos) |->
     [repos[i] EXCEPT !.name = IF IsPresent(@) THEN @ ELSE Present(<<>>),
                      !.description = IF IsPresent(@) THEN @ ELSE Present(<<>>)]]

\* The names of the repositories of the events that have one
EventRepos(events) == {Get(events[i].repo) : i \in {j \in 1..Len(events) : IsPresent(events[j].repo)}}

\* C19: the call does not raise on events without payload, commit list, repo or org, nor
\* on repositories without name, description, language or counts; a push without commit
\* list counts as one commit, an event without repo is left out of the project and network
\* counts, and an absent name or description reads as the empty string.
C19_AbsentFieldsDefaulted ==
  insights /= NoInsights =>
    LET events == OrEmpty(userData.events)
        repos == OrEmpty(userData.repositories)
    IN /\ ~Raised(insights)
       /\ insights.codingStyle.commitStyle = analyzeCommitStyle(WithOneCommit(events))
       /\ insights.workPatterns.multitasking.uniqueProjects = Cardinality(EventRepos(events))
       /\ insights.collaborationStyle.networkSize.repositoryNetwork
            = Cardinality(EventRepos(events))
       /\ insights.codingStyle.projectTypes = categorizeProjectTypes(WithEmptyStrings(repos))
       /\ insights.codingStyle.testingApproach = analyzeTestingApproach(WithEmptyStrings(repos))
       /\ insights.codingStyle.architectureStyle
            = analyzeArchitectureStyle(WithEmptyStrings(repos))
       /\ Len(repos) > 0 =>
            /\ insights.personalityProfile.scores.innovation
                 = calculateInnovationScore(WithEmptyStrings(repos), clock, 0)
            /\ insights.personalityProfile.scores.exploration
                 = calculateExplorationScore(WithEmptyStrings(repos), 0)

\* C19 witness: a computed result on pushes without commit list, events without payload,
\* repo and org, and a repository without name, description, language and counts.
C19_Witness ==
  /\ Computed
  /\ IsPresent(userData.events)
  /\ IsPresent(userData.repositories)
  /\ \E i \in 1..Len(Get(userData.events)) :
       LET e == Get(userData.events)[i]
       IN e.type = "PushEvent" /\ IsPresent(e.payload) /\ ~IsPresent(Get(e.payload).commits)
  /\ \E i \in 1..Len(Get(userData.events)) :
       LET e == Get(userData.events)[i]
       IN ~IsPresent(e.payload) /\ ~IsPresent(e.repo) /\ ~IsPresent(e.org)
  /\ \E i \in 1..Len(Get(userData.repositories)) :
       LET r == Get(userData.repositories)[i]
       IN /\ ~IsPresent(r.name) /\ ~IsPresent(r.description) /\ r.language = NoLanguage
          /\ ~IsPresent(r.stargazers_count) /\ ~IsPresent(r.forks_count)
  /\ insights.codingStyle.commitStyle.style = "Atomic Commits"
  /\ insights.workPatterns.multitasking.uniqueProjects = 3

-----------------------------------------------------------------------------
(* The methods defined twice *)

\* The PullRequest and Issues events among the events numbered from + 1 .. to
PullsAndIssues(events, from, to) ==
  Cardinality({i \in (from + 1)..Min(to, Len(events)) :
                 events[i].type \in {"PullRequestEvent", "IssuesEvent"}})

\* C20: the collaboration growth of a result is one of Increasing Collaboration, Focusing
\* Inward and Stable Collaboration, decided by the PullRequest and Issues events among the
\* first 15 events against the next 15, so it is Stable Collaboration when there is no
\* collaborative event; the skill development has confidence 0.7.
C20_LaterDefinitionsInEffect ==
  Computed =>
    LET events == OrEmpty(userData.events)
        recentCollab == PullsAndIssues(events, 0, 15)
        olderCollab == PullsAndIssues(events, 15, 30)
        growth == insights.predictions.collaborationGrowth
    IN /\ growth.trend \in {"Increasing Collaboration", "Focusing Inward", "Stable Collaboration"}
       /\ growth.trend = "Increasing Collaboration" <=> recentCollab * 10 > olderCollab * 13
       /\ growth.trend = "Focusing Inward" <=>
            /\ recentCollab * 10 <= olderCollab * 13
            /\ recentCollab * 10 < olderCollab * 7
       /\ (\A i \in 1..Len(events) : ~IsCollaborative(events[i])) =>
            growth.trend = "Stable Collaboration"
       /\ insights.predictions.skillDevelopment.confidence = 700

\* C20 witness: a result on events without any collaborative event, where the earlier
\* definition would answer 'Start Collaborating', and one of the later labels is returned.
C20_Witness ==
  /\ Computed
  /\ Len(OrEmpty(userData.events)) >= 10
  /\ \A i \in 1..Len(OrEmpty(userData.events)) : ~IsCollaborative(OrEmpty(userData.events)[i])
  /\ predictCollaborationGrowth_firstDefinition(OrEmpty(userData.events)).trend
       = "Start Collaborating"
  /\ insights.predictions.collaborationGrowth.trend = "Stable Collaboration"
  /\ insights.predictions.skillDevelopment.confidence = 700

-----------------------------------------------------------------------------
(* The recommendations for a user loaded by the dashboard *)

\* Profiles of the GitHub API, on either side of the thresholds of the count rules
ProfileGrid == {[public_repos |-> p, followers |-> f] : p \in {0, 9, 16, 42}, f \in {0, 31, 156}}

\* this.currentUserData = {profile, repositories, events, ...}: the counts are fields
\* of the profile; the bundle itself has no public_repos and no followers
currentUserData(profile, repositories, events) ==
  [profile |-> profile, repositories |-> Present(repositories), events |-> Present(events),
   public_repos |-> Absent, followers |-> Absent]

\* The repositories of the loaded users: up to MaxLanguageCopies per language, and up to 3
\* more JavaScript repositories
DashboardRepoLists ==
  {LanguageRepos(copies) \o Repeat(LanguageRepo("JavaScript"), n) :
     copies \in [1..Len(RecommendLanguages) -> 0..MaxLanguageCopies], n \in {0, 3}}

\* window.DevPulseAI.generateInsights(this.currentUserData), as far as the recommendations
RecommendForLoadedUser ==
  /\ probe = NoProbe
  /\ \E profile \in ProfileGrid, repositories \in DashboardRepoLists :
       LET data == currentUserData(profile, repositories, PushesAt(1, 10, 10))
       IN probe' = [fn |-> "recommendForLoadedUser",
                    userData |-> data,
                    summary |-> analyzeBasicPatterns(data),
                    career |-> generateCareerRecommendations(analyzeBasicPatterns(data)),
                    result |-> generateRecommendations(data)]
  /\ UNCHANGED <<userData, clock, insights, earlier, dashboard>>

\* One recommendation run for each loaded user
SpecDashboard == StartProbe /\ [][RecommendForLoadedUser]_vars

LoadedUserRecommended == probe.fn = "recommendForLoadedUser"

\* C21: the summary of a user loaded by the dashboard has the profile's public_repos as its
\* repo count and the profile's followers as its follower count.
C21_SummaryCountsFromProfile ==
  LoadedUserRecommended =>
    /\ probe.summary.repoCount = probe.userData.profile.public_repos
    /\ probe.summary.followerCount = probe.userData.profile.followers

\* C21 witness: a loaded profile of 42 repositories and 156 followers, whose summary has
\* both counts 0 and whose career list has neither count rule's record.
C21_Witness ==
  /\ LoadedUserRecommended
  /\ probe.userData.profile = [public_repos |-> 42, followers |-> 156]
  /\ probe.summary.repoCount = 0
  /\ probe.summary.followerCount = 0
  /\ \A i \in 1..Len(probe.career) :
       probe.career[i].title \notin {"Technical Leadership Role", "Senior Developer Position",
                                     "Developer Relations"}

\* C22: the languages of the summary are distinct, and 'Full-Stack Development' is among
\* the career records before their cut exactly when the repositories use more than three
\* distinct languages.
C22_DistinctLanguagesInSummary ==
  LoadedUserRecommended =>
    LET languages == probe.summary.languages
        distinct == {languages[i] : i \in 1..Len(languages)}
    IN /\ Len(languages) = Cardinality(distinct)
       /\ (\E i \in 1..Len(probe.career) : probe.career[i].title = "Full-Stack Development")
            => Cardinality(distinct) > 3

\* C22 witness: four JavaScript repositories and no other; the summary lists JavaScript
\* four times and 'Full-Stack Development' is recommended.
C22_Witness ==
  /\ LoadedUserRecommended
  /\ probe.summary.languages = <<"JavaScript", "JavaScript", "JavaScript", "JavaScript">>
  /\ \E i \in 1..Len(probe.result.value) : probe.result.value[i].title = "Full-Stack Development"

-----------------------------------------------------------------------------
(* The decision tree of determineWorkingStyle *)

\* The events of the hours h (0..23) are more than 40% of all events
Over40(hours) ==
  10 * Sum([i \in 1..24 |-> IF (i - 1) \in hours THEN probe.hourlyDist[i] ELSE 0])
    > 4 * Sum(probe.hourlyDist)

\* The variance of the Monday-Friday counts is below 2: for counts x of sum s,
\* (5 * sum of x^2 - s^2) / 25 < 2
WeekdaysConsistent ==
  LET x == [d \in 1..5 |-> probe.weeklyDist[d + 1]]
  IN 5 * Sum([d \in 1..5 |-> x[d] * x[d]]) - Sum(x) * Sum(x) < 50

\* Sunday and Saturday hold more than 0.4 of the week's events
WeekendOver40 ==
  10 * (probe.weeklyDist[1] + probe.weeklyDist[7]) > 4 * Max(Sum(probe.weeklyDist), 1)

EveningHours == 18..22

AfternoonHours == 12..17

\* The label of the first matching rule
FirstMatchingStyle ==
  LET pick(consistent, other) == IF WeekdaysConsistent THEN consistent ELSE other
      inHours(hours) == Sum([i \in 1..24 |-> IF (i - 1) \in hours THEN probe.hourlyDist[i] ELSE 0])
  IN IF Over40({23} \cup 0..5) THEN pick("Consistent Night Owl", "Irregular Night Coder")
     ELSE IF Over40(6..11) THEN pick("Early Bird Developer", "Morning Burst Coder")
     ELSE IF WeekendOver40
       THEN (IF inHours(EveningHours) > inHours(AfternoonHours)
             THEN "Weekend Evening Warrior" ELSE "Weekend Day Hacker")
     ELSE IF Over40(EveningHours) THEN pick("After-Hours Developer", "Evening Sprint Coder")
     ELSE IF Over40(AfternoonHours) THEN pick("Afternoon Focused", "Midday Momentum")
     ELSE pick("Steady All-Day Contributor", "Flexible Schedule Coder")

\* C23: the style is 'Getting Started' exactly for an hourly total of 0; otherwise it is
\* the label of the first matching rule among night, morning, weekend, evening, afternoon
\* and the consistency check alone, the consistent label being chosen exactly when the
\* Monday-Friday variance is below 2; it is one of the 13 labels.
C23_FirstMatchingStyle ==
  StyleDetermined =>
    /\ probe.result = "Getting Started" <=> Sum(probe.hourlyDist) = 0
    /\ Sum(probe.hourlyDist) > 0 => probe.result = FirstMatchingStyle
    /\ probe.result \in
         {"Getting Started", "Consistent Night Owl", "Irregular Night Coder",
          "Early Bird Developer", "Morning Burst Coder", "Weekend Evening Warrior",
          "Weekend Day Hacker", "After-Hours Developer", "Evening Sprint Coder",
          "Afternoon Focused", "Midday Momentum", "Steady All-Day Contributor",
          "Flexible Schedule Coder"}

\* C23 witness: more than 40% of the events in the evening, and more than 0.4 of them on
\* the weekend, which is asked first: a Weekend label, where the Monday-Friday variance is
\* 2 or more.
C23_Witness ==
  /\ StyleDetermined
  /\ Over40(EveningHours)
  /\ WeekendOver40
  /\ ~WeekdaysConsistent
  /\ probe.result = "Weekend Evening Warrior"

-----------------------------------------------------------------------------
(* The dashboard: DevPulse.init, DevPulse.loadUserData, the AI insights timer of *)
(* renderDashboard and DevPulseAIUI.refreshAIAnalysis.  A call of an async       *)
(* function is a record in the bag calls, whose pc names the await it is         *)
(* suspended at; the code between two awaits is one step.                        *)

\* Bounds on the calls of one run
MaxInitCalls == 2

MaxLoads == 2

MaxRefreshes == 1

\* The users looked up
Usernames == {"octocat", "torvalds"}

\* What the three requests of loadUserData return for a user
DataOf(username) == [profile |-> username]

Call(fn, pc, username) == [fn |-> fn, pc |-> pc, username |-> username]

\* The calls made of a function so far
Invocations(fn) == CopiesIn(fn, BagOfAll(LAMBDA c : c.fn, calls))

\* The bag of calls with one more call, and with a call moved to another await
Invoked(call) == calls (+) SetToBag({call})

Moved(call, pc) == (calls (-) SetToBag({call})) (+) SetToBag({[call EXCEPT !.pc = pc]})

Suspended(fn, pc) == {c \in BagToSet(calls) : c.fn = fn /\ c.pc = pc}

\* The test that opens init with the initialized flag alone
initGuard_initializedOnly(state) == state.isInitialized

\* if (this.isInitialized || this.loadingState) return
initGuard(state) == state.isInitialized \/ state.loadingState

\* DevPulse.init() up to its first await: a return at the guard, or loadingState set and
\* the loading screen shown
InvokeInit ==
  /\ Invocations("init") < MaxInitCalls
  /\ IF initGuard(devPulse)
     THEN /\ calls' = Invoked(Call("init", "returned", ""))
          /\ UNCHANGED devPulse
     ELSE /\ calls' = Invoked(Call("init", "sleeping", ""))
          /\ devPulse' = [devPulse EXCEPT !.loadingState = TRUE]
  /\ UNCHANGED <<page, engine>>

\* await this.waitForDependencies(): the dependencies are there, or the wait times out
\* and the catch block replaces the document
InitWaitsForDependencies ==
  /\ \E c \in Suspended("init", "sleeping"), outcome \in {"configured", "failed"} :
       calls' = Moved(c, outcome)
  /\ UNCHANGED <<devPulse, page, engine>>

\* await this.initializeModules()
InitializeModules ==
  /\ \E c \in Suspended("init", "configured") : calls' = Moved(c, "modulesReady")
  /\ page' = [page EXCEPT !.initializeModulesRuns = @ + 1]
  /\ UNCHANGED <<devPulse, engine>>

\* await this.setupApplication() and the two sleeps that follow
SetupApplication ==
  /\ \E c \in Suspended("init", "modulesReady") : calls' = Moved(c, "finishing")
  /\ page' = [page EXCEPT !.setupApplicationRuns = @ + 1]
  /\ UNCHANGED <<devPulse, engine>>

\* this.isInitialized = true; this.loadingState = false; await this.sleep(500)
InitMarksInitialized ==
  /\ \E c \in Suspended("init", "finishing") : calls' = Moved(c, "ready")
  /\ devPulse' = [devPulse EXCEPT !.isInitialized = TRUE, !.loadingState = FALSE]
  /\ UNCHANGED <<page, engine>>

\* this.hideLoadingScreen(): the app element is displayed, and with it the search form
\* and the suggestion chips
HideLoadingScreen ==
  /\ \E c \in Suspended("init", "ready") : calls' = Moved(c, "done")
  /\ page' = [page EXCEPT !.appShown = TRUE]
  /\ UNCHANGED <<devPulse, engine>>

\* DevPulse.loadUserData(username) up to await Promise.all([...]), from the search form or
\* a suggestion chip
LoadUserData ==
  /\ page.appShown
  /\ Invocations("loadUserData") < MaxLoads
  /\ \E username \in Usernames :
       /\ calls' = Invoked(Call("loadUserData", "fetching", username))
       /\ devPulse' = [devPulse EXCEPT !.loadingState = TRUE,
                                       !.currentUsername = <<username>>,
                                       !.currentUserData = <<>>]
  /\ UNCHANGED <<page, engine>>

\* The three requests have answered: this.currentUserData = {...}, and renderDashboard
\* runs up to await this.renderCharts(...)
RequestsAnswered ==
  /\ \E c \in Suspended("loadUserData", "fetching") :
       /\ calls' = Moved(c, "rendering")
       /\ devPulse' = [devPulse EXCEPT !.currentUserData = <<DataOf(c.username)>>]
  /\ UNCHANGED <<page, engine>>

\* A request has failed: the catch block rethrows and finally resets loadingState
RequestFails ==
  /\ \E c \in Suspended("loadUserData", "fetching") : calls' = Moved(c, "failed")
  /\ devPulse' = [devPulse EXCEPT !.loadingState = FALSE]
  /\ UNCHANGED <<page, engine>>

\* The rest of renderDashboard, which sets the AI insights timer, and of loadUserData,
\* whose finally resets loadingState
DashboardRendered ==
  /\ \E c \in Suspended("loadUserData", "rendering") :
       calls' = Moved(c, "done") (+) SetToBag({Call("insightsTimer", "pending", "")})
  /\ devPulse' = [devPulse EXCEPT !.loadingState = FALSE]
  /\ UNCHANGED <<page, engine>>

\* An AI section as createAISection builds it: the first element child of the dashboard
\* after the profile, so the first with id 'ai-insights' in document order
WithAISection(sections, state) ==
  <<[username |-> state.currentUsername, computedFrom |-> state.currentUserData]>> \o sections

\* The timer callback: generateInsights(this.currentUserData), which raises on null and
\* is caught, then renderAIInsights(insights, this.currentUsername), which adds a section
InsightsTimerFires ==
  /\ \E c \in Suspended("insightsTimer", "pending") : calls' = Moved(c, "fired")
  /\ page' = IF devPulse.currentUserData = <<>> THEN page
             ELSE [page EXCEPT !.aiSections = WithAISection(@, devPulse)]
  /\ UNCHANGED <<devPulse, engine>>

\* DevPulseAIUI.refreshAIAnalysis(), from the refresh button of an AI section: with user
\* data, getElementById('ai-insights') is removed and a section is rendered
RefreshAIAnalysis ==
  /\ page.aiSections /= <<>>
  /\ Invocations("refreshAIAnalysis") < MaxRefreshes
  /\ calls' = Invoked(Call("refreshAIAnalysis", "done", ""))
  /\ page' = IF devPulse.currentUserData = <<>> THEN page
             ELSE [page EXCEPT !.aiSections = WithAISection(Tail(@), devPulse)]
  /\ UNCHANGED <<devPulse, engine>>

StartApp ==
  /\ userData = NoBundle
  /\ clock = Now
  /\ insights = NoInsights
  /\ earlier = NoCall
  /\ probe = NoProbe
  /\ DashboardLoaded

NextApp ==
  \/ InvokeInit
  \/ InitWaitsForDependencies
  \/ InitializeModules
  \/ SetupApplication
  \/ InitMarksInitialized
  \/ HideLoadingScreen
  \/ LoadUserData
  \/ RequestsAnswered
  \/ RequestFails
  \/ DashboardRendered
  \/ InsightsTimerFires
  \/ RefreshAIAnalysis

\* The calls of one page visit, in any interleaving
SpecApp == StartApp /\ [][NextApp]_vars

\* The init calls that went past the guard
InitsRunning == BagCardinality(calls) - Invocations("insightsTimer")
                  - Invocations("loadUserData") - Invocations("refreshAIAnalysis")
                  - CopiesIn(Call("init", "returned", ""), calls)

\* The loads that have not returned
LoadsInFlight == Suspended("loadUserData", "fetching") \cup Suspended("loadUserData", "rendering")

\* C24: of all init calls at most one goes past the guard, whether the others come while
\* it is in progress or after it has completed; initializeModules and setupApplication
\* run at most once.
C24_InitRunsOnce ==
  /\ InitsRunning <= 1
  /\ page.initializeModulesRuns <= 1
  /\ page.setupApplicationRuns <= 1

\* C24 witness: an init call has completed and another returned at the guard; a load has
\* completed since and reset loadingState.
C24_Witness ==
  /\ CopiesIn(Call("init", "done", ""), calls) = 1
  /\ CopiesIn(Call("init", "returned", ""), calls) >= 1
  /\ Suspended("loadUserData", "done") /= {}
  /\ ~devPulse.loadingState
  /\ page.initializeModulesRuns = 1
  /\ page.setupApplicationRuns = 1

\* The timers of renderDashboard that have not fired yet
TimersPending == Suspended("insightsTimer", "pending")

\* C26: whenever no load is in flight and currentUserData is non-null, currentUserData is
\* the data fetched for currentUsername; and loadingState is true as long as a load is in
\* flight.
C26_CurrentDataOfCurrentUser ==
  /\ (LoadsInFlight = {} /\ devPulse.currentUserData /= <<>>)
       => devPulse.currentUserData = <<DataOf(devPulse.currentUsername[1])>>
  /\ LoadsInFlight /= {} => devPulse.loadingState

\* C26 witness: two loads for different users have completed, and the data held is not
\* that of currentUsername: the load started first was answered last.
C26_Witness ==
  /\ LoadsInFlight = {}
  /\ \A username \in Usernames : Call("loadUserData", "done", username) \in BagToSet(calls)
  /\ devPulse.currentUserData /= <<>>
  /\ devPulse.currentUserData /= <<DataOf(devPulse.currentUsername[1])>>

\* The loads that ended in the catch block
LoadsFailed == Suspended("loadUserData", "failed")

\* C29: once the loads have completed, none of them by an error, and the timers have
\* fired, the dashboard holds at most one AI insights section, computed from the data in
\* currentUserData.
C29_OneCurrentAISection ==
  (LoadsInFlight = {} /\ LoadsFailed = {} /\ TimersPending = {})
    => /\ Len(page.aiSections) <= 1
       /\ \A i \in DOMAIN page.aiSections :
            page.aiSections[i].computedFrom = devPulse.currentUserData

\* C29 witness: two loads have completed one after the other, both timers have fired, and
\* the dashboard holds two AI insights sections.
C29_Witness ==
  /\ LoadsInFlight = {}
  /\ LoadsFailed = {}
  /\ TimersPending = {}
  /\ Invocations("loadUserData") = 2
  /\ Len(page.aiSections) = 2

-----------------------------------------------------------------------------
(* GitHubAPI.makeRequestWithRetry: the requests behind loadUserData *)

\* config github.retry
retryConfig == [attempts |-> 3, delay |-> 1000, backoffFactor |-> 2]

\* Number.prototype.toString of a three-digit status
StatusString(status) ==
  LET digits == <<"0", "1", "2", "3", "4", "5", "6", "7", "8", "9">>
  IN <<digits[(status \div 100) + 1], digits[((status \div 10) % 10) + 1], digits[(status % 10) + 1]>>

\* response.statusText over HTTP/1.1 (empty over HTTP/2)
ReasonPhrase(status) ==
  CASE status = 403 -> <<"F", "o", "r", "b", "i", "d", "d", "e", "n">>
    [] status = 404 -> <<"N", "o", "t", " ", "F", "o", "u", "n", "d">>
    [] status = 429 -> <<"T", "o", "o", " ", "M", "a", "n", "y", " ", "R", "e", "q", "u", "e", "s", "t", "s">>
    [] status = 500 -> <<"I", "n", "t", "e", "r", "n", "a", "l", " ", "S", "e", "r", "v", "e", "r", " ",
                         "E", "r", "r", "o", "r">>
    [] OTHER -> <<>>

\* `GitHub API error: ${response.status} ${response.statusText}`
GitHubAPIError(status, statusText) ==
  <<"G", "i", "t", "H", "u", "b", " ", "A", "P", "I", " ", "e", "r", "r", "o", "r", ":", " ">>
    \o StatusString(status) \o <<" ">> \o statusText

\* What one call of makeRequest does: it returns the data, or throws the error of a
\* response that is not ok, or 'Request timeout'
Responses ==
  {[ok |-> TRUE, status |-> 200, message |-> <<>>]}
    \cup {[ok |-> FALSE, status |-> status, message |-> GitHubAPIError(status, statusText)] :
            <<status, statusText>> \in
              UNION {{<<s, <<>> >>, <<s, ReasonPhrase(s)>>} : s \in {403, 404, 429, 500}}}
    \cup {[ok |-> FALSE, status |-> 0,
           message |-> <<"R", "e", "q", "u", "e", "s", "t", " ", "t", "i", "m", "e", "o", "u", "t">>]}

\* The errors rethrown at once, taken to be those of the 5xx responses
notRetried_serverErrors(message) ==
  /\ Includes(message, <<"G", "i", "t", "H", "u", "b", " ", "A", "P", "I", " ",
                         "e", "r", "r", "o", "r", ":", " ", "5">>)
  /\ ~Includes(message, <<"4", "2", "9">>)

\* error.message.includes('GitHub API error: 4') && !error.message.includes('429')
notRetried(message) ==
  /\ Includes(message, <<"G", "i", "t", "H", "u", "b", " ", "A", "P", "I", " ",
                         "e", "r", "r", "o", "r", ":", " ", "4">>)
  /\ ~Includes(message, <<"4", "2", "9">>)

\* The for loop of makeRequestWithRetry from one value of attempt on; responses[k] is
\* what the k-th call of makeRequest does, slept the delays waited so far
RECURSIVE retryLoop(_, _, _, _)
retryLoop(responses, retry, attempt, slept) ==
  IF attempt >= retry.attempts
    THEN [threw |-> TRUE, outcome |-> responses[attempt], requests |-> attempt, slept |-> slept]
    ELSE LET response == responses[attempt + 1]
         IN IF response.ok
              THEN [threw |-> FALSE, outcome |-> response, requests |-> attempt + 1, slept |-> slept]
              ELSE IF notRetried(response.message)
                     THEN [threw |-> TRUE, outcome |-> response, requests |-> attempt + 1,
                           slept |-> slept]
                     ELSE retryLoop(responses, retry, attempt + 1,
                                    IF attempt < retry.attempts - 1
                                      THEN Append(slept, retry.delay * retry.backoffFactor ^ attempt)
                                      ELSE slept)

makeRequestWithRetry(responses, retry) == retryLoop(responses, retry, 0, <<>>)

\* this.makeRequestWithRetry(endpoint), with github.retry.attempts up to the shipped value
MakeRequestWithRetry ==
  /\ probe = NoProbe
  /\ \E attempts \in 1..retryConfig.attempts :
       \E responses \in [1..attempts -> Responses] :
         LET retry == [retryConfig EXCEPT !.attempts = attempts]
         IN probe' = [fn |-> "makeRequestWithRetry",
                      retry |-> retry,
                      responses |-> responses,
                      result |-> makeRequestWithRetry(responses, retry)]
  /\ UNCHANGED <<userData, clock, insights, earlier, dashboard>>

\* One call of makeRequestWithRetry on each course of the requests
SpecRetry == StartProbe /\ [][MakeRequestWithRetry]_vars

RequestMade == probe.fn = "makeRequestWithRetry"

\* A response with a 4xx status other than 429
ClientError(response) == ~response.ok /\ response.status \in 400..499 /\ response.status /= 429

\* C25: makeRequestWithRetry calls makeRequest at most `attempts` times and then rethrows
\* the last error; it calls it exactly once when the first call fails with a 4xx status
\* other than 429; and it returns the first successful response without further calls.
C25_RetryAtMostAttempts ==
  RequestMade =>
    LET result == probe.result
        responses == probe.responses
    IN /\ result.requests \in 1..probe.retry.attempts
       /\ result.outcome = responses[result.requests]
       /\ result.threw = ~result.outcome.ok
       /\ \A k \in 1..(result.requests - 1) : ~responses[k].ok
       /\ ClientError(responses[1]) => result.requests = 1 /\ result.threw
       /\ (\A k \in DOMAIN responses : ~responses[k].ok /\ ~ClientError(responses[k]))
            => result.requests = probe.retry.attempts /\ result.threw

\* C25 witness: three attempts, a 500 and a timeout answered by retries after 1000 and
\* 2000 ms, and a 404 on the third call rethrown.
C25_Witness ==
  /\ RequestMade
  /\ probe.retry.attempts = 3
  /\ probe.responses[1].status = 500
  /\ probe.responses[2].status = 0
  /\ probe.responses[3].status = 404
  /\ probe.result.requests = 3
  /\ probe.result.threw
  /\ probe.result.slept = <<1000, 2000>>

-----------------------------------------------------------------------------
(* The intensity signal of assessBurnoutRisk *)

MaxIntensityRun == 52

\* this.assessBurnoutRisk(events, weeklyPattern) on 20 to MaxIntensityRun pushes of one
\* hour of one day: this Sunday, the Saturday or the Thursday before, at 10:00 or 4:00
AssessBurnoutRiskByLength ==
  /\ probe = NoProbe
  /\ \E n \in 20..MaxIntensityRun, daysAgo \in {0, 1, 3}, hour \in {10, 4}, r \in RandomDraws :
       LET events == PushesAt(daysAgo, hour, n)
       IN probe' = [fn |-> "assessBurnoutRisk",
                    events |-> events,
                    result |-> assessBurnoutRisk(events, analyzeWeeklyPattern(events), r)]
  /\ UNCHANGED <<userData, clock, insights, earlier, dashboard>>

\* One call of assessBurnoutRisk on each list of pushes
SpecIntensity == StartProbe /\ [][AssessBurnoutRiskByLength]_vars

-----------------------------------------------------------------------------
(* The fallback lists of the coding style *)

\* C30: projectTypes is ['General Development'] and architectureStyle is ['Standard
\* Architecture'] when no repository matches a keyword category, so neither list of a
\* computed coding style is empty.
C30_FallbackLists ==
  Computed =>
    LET repos == OrEmpty(userData.repositories)
        style == insights.codingStyle
    IN /\ style.projectTypes /= <<>>
       /\ style.architectureStyle /= <<>>
       /\ (\A i \in DOMAIN repos : projectCategories(repos[i]) = <<>>)
            => style.projectTypes = <<"General Development">>
       /\ (\A i \in DOMAIN repos : architecturePatterns(repos[i]) = <<>>)
            => style.architectureStyle = <<"Standard Architecture">>

\* C30 witness: insights computed for a user without repositories, whose two lists are
\* empty.
C30_Witness ==
  /\ Computed
  /\ OrEmpty(userData.repositories) = <<>>
  /\ insights.codingStyle.projectTypes = <<>>
  /\ insights.codingStyle.architectureStyle = <<>>

====
